---- MODULE Spec2Model ----
(***************************************************************************)
(* Model of the GoULC HTTP client layer (http/client/client.go): client    *)
(* lifecycle (Clone, NewChild, Close, IsClosed), request execution (Do,    *)
(* DoWithMarshal), the cloning of the header and query maps, and the       *)
(* redirect policy (FollowRedirects).                                      *)
(*                                                                         *)
(* Spec          goroutines calling the lifecycle and request operations   *)
(*               on one tree of clients, interleaved at lock and atomic    *)
(*               granularity.                                              *)
(* SpecMaps      header/query maps of a client and of its clone, as Go     *)
(*               maps of slices living in a heap of backing arrays.        *)
(* SpecRedirect  one request walking a redirect chain through the          *)
(*               CheckRedirect callback built by FollowRedirects.          *)
(***************************************************************************)
EXTENDS Integers, Sequences, FiniteSets, TLC

\* ---------------------------------------------------------------- bounds
NUsers == 2          \* caller goroutines
MaxOps == 3          \* top-level calls started, over all caller goroutines
MaxClients == 3      \* client values that can be allocated (the root included)

Clients == 1..MaxClients
Root == 1
Users == 1..NUsers
\* the goroutine Close starts for the closer of child k (client.go:500)
Gor(k) == NUsers + k
Threads == 1..(NUsers + MaxClients)

VARIABLES
  clients,    \* [Clients -> Client struct]
  extCancel,  \* the context given to New has been cancelled
  stack,      \* [Threads -> call stack, top first]
  ret,        \* [Threads -> last value returned to the thread]
  ops,        \* top-level calls started so far
  visible,    \* clients the callers hold a pointer to
  budget,     \* client values not yet reserved by a started call
  crashed,    \* "" while the process runs, else the panic that ended it
  hasAuth,    \* New was given an authenticator
  hasLimiter  \* Options.RateLimiter is set

lifeVars == <<clients, extCancel, stack, ret, ops, visible, budget, crashed,
              hasAuth, hasLimiter>>

VARIABLES
  heap,       \* backing arrays of the value slices, by address
  maps,       \* Header and Query of a client ("src") and of its clone
  cloned,     \* Clone has run
  last,       \* the client whose map the last step changed
  mops        \* map operations done

mapVars == <<heap, maps, cloned, last, mops>>

VARIABLES
  rOpt,       \* Options of the client, and what the request meets
  rpc,        \* "send", "check" (CheckRedirect is being called) or "done"
  rVia,       \* the requests sent so far (via of CheckRedirect)
  rReq,       \* the request to send next
  rTrace,     \* the redirect trace of the call
  rWaits,     \* RateLimiter.Wait calls made by the redirect policy
  rResult     \* what the transport client returned, "" while it runs

redVars == <<rOpt, rpc, rVia, rReq, rTrace, rWaits, rResult>>

VARIABLES
  eNow,       \* time.Now(), in clock ticks
  eHist,      \* ErrorHistory of a client calculateErrorRate is called on
  eLog,       \* every outcome ever given to calculateErrorRate on that client
  eRate,      \* the rate the last of these calls returned
  dHist,      \* ErrorHistory of a client M that Do is called on
  dDone,      \* every outcome of a Do completed on M
  dRate       \* Response.ErrorRate of the last Do completed on M

rateVars == <<eNow, eHist, eLog, eRate, dHist, dDone, dRate>>

VARIABLES
  nIn,        \* the arguments of a call of New
  npc,        \* "call": New is to run; "done": it has returned
  nRes,       \* what New returned: the error and the Client value
  nClone,     \* a Clone (or NewChild) of the client New returned
  nReq        \* the initial requests built by Do on the client or on its clone

newVars == <<nIn, npc, nRes, nClone, nReq>>

VARIABLES
  tNow,       \* time.Now(), in clock ticks
  tToken,     \* ClientCredentials.Token: the cached token
  tHTTP,      \* the client the authenticator sends with: "open", "cancelled", "closed"
  tSent,      \* token requests sent so far
  tUpdates,   \* calls of Update so far
  tLast,      \* what the last call of Update met and returned
  tCrashed    \* "" while the process runs, else the panic that ended it

tokVars == <<tNow, tToken, tHTTP, tSent, tUpdates, tLast, tCrashed>>

VARIABLES
  bIn,        \* the arguments of a call of NewBasic
  bpc,        \* "call": NewBasic is to run; "done": it has returned
  bRes,       \* what NewBasic returned: the error and the Basic value
  bHeader,    \* what the last call of Header returned
  bCalls      \* calls of Header so far

basicVars == <<bIn, bpc, bRes, bHeader, bCalls>>

VARIABLES
  gIn,        \* the user name, password and parameters a Digest is made from
  gpc,        \* "call": the Digest is to be made; "built": it has been
  gRes,       \* what NewDigest returned: the error and the Digest value
  gHeap,      \* the Digest values in memory, by address
  gAuth,      \* the addresses held: by the client and by its clone (0: none)
  gOut,       \* the last call on a Digest and what it returned
  gCalls      \* calls made on the Digest values so far

digVars == <<gIn, gpc, gRes, gHeap, gAuth, gOut, gCalls>>

VARIABLES
  pIn,        \* the path of the server URL given to New
  ppc,        \* "new": New is to run; "ready": a parent client exists
  pParent,    \* URL of the client NewChild is called on
  pChild,     \* URL of the client the last NewChild returned
  pArg,       \* the path argument of the last NewChild
  pDepth      \* calls of NewChild so far

pathVars == <<pIn, ppc, pParent, pChild, pArg, pDepth>>

VARIABLES
  mIn,        \* the method and body given to Do, and the authenticator's answer
  mpc,        \* "call": Do is to run; "send": the request is built; "done"
  mRes,       \* what Do returned: the response and the error
  mSent       \* the methods of the requests sent

methVars == <<mIn, mpc, mRes, mSent>>

VARIABLES
  hIn,        \* the transport's answer, and the unmarshaler given to Do
  hpc,        \* "arrived", "recorded" (res is built), "handled" or "done"
  hRes,       \* what Do returns: the response and the error
  hCalls,     \* the arguments of the Unmarshal calls made
  hHistory,   \* ErrorHistory of the per-call clone c
  hMain       \* ErrorHistory of the client Do was called on

respVars == <<hIn, hpc, hRes, hCalls, hHistory, hMain>>

VARIABLES
  qIn,        \* ClientAuth and Config of a ClientCredentials, and its http client
  qpc,        \* "call": newToken is to run; "built": c.Do is to run; "sent"
  qData,      \* data, the url.Values of newToken
  qHeader,    \* c.Header of the child client newToken sends with
  qReq        \* the request that went out

treqVars == <<qIn, qpc, qData, qHeader, qReq>>

VARIABLES
  kClients,   \* the clients of one tree: flags, closers, Mu, the authenticator's http
  kStack,     \* [TreeThreads -> call stack, top first]
  kRet,       \* what the last call of a goroutine returned to it
  kOps,       \* top-level calls started
  kBudget,    \* client values that can still be allocated
  kCrashed    \* "" or the panic that ended the program

lockVars == <<kClients, kStack, kRet, kOps, kBudget, kCrashed>>

VARIABLES
  aIn,        \* the authenticator attached to main when Do is called, and the time
  aHeap,      \* the authenticators, by address: 1 is main.Auth, 2 the clone's
  apc,        \* "call", "cloned", "send" or "done"
  aCalls,     \* the calls made on authenticators: method and address
  aHeader,    \* the Authorization value set on the request, <<>> if none
  aSent,      \* the Authorization values of the requests sent
  aRes        \* the error Do returned

authVars == <<aIn, aHeap, apc, aCalls, aHeader, aSent, aRes>>

\* ------------------------------------------------------- the Client struct
\* Client (types file): closed, activeRequests, logger, closer, context/cancel,
\* Mu, and the configuration (Options, Header, Auth, URL, Query, ErrorHistory)
\* abstracted to "config is still there".
NoClient ==
  [ alloc |-> FALSE, parent |-> 0, ctx |-> 0, closed |-> FALSE, cancelled |-> FALSE,
    activeRequests |-> 0, closer |-> <<>>, config |-> FALSE, logger |-> FALSE,
    muW |-> 0, muR |-> 0, shutdowns |-> 0, closeReturned |-> FALSE ]

\* New (client.go:172-198): open, own cancellable context, no closers.
NewClient ==
  [ NoClient EXCEPT !.alloc = TRUE, !.config = TRUE, !.logger = TRUE ]

\* context.Background(): never done
Background == 0 - 1

RECURSIVE CtxDoneIn(_, _)
\* context.Err() != nil for the context of client c: its own cancel was called,
\* or the context it was derived from is done (context.WithCancel). Context 0 is
\* the one the caller gave to New.
CtxDoneIn(cs, c) ==
  IF c = Background THEN FALSE
  ELSE IF c = 0 THEN extCancel
  ELSE cs[c].cancelled \/ CtxDoneIn(cs, cs[c].ctx)

CtxDone(c) == CtxDoneIn(clients, c)

RECURSIVE Ancestors(_)
Ancestors(c) ==
  IF c = 0 \/ clients[c].parent = 0 THEN {}
  ELSE {clients[c].parent} \cup Ancestors(clients[c].parent)

\* 2: a Close of c itself has returned; 1: a Close of an ancestor has; 0: none
After(c) ==
  IF c = 0 THEN 0
  ELSE IF clients[c].closeReturned THEN 2
  ELSE IF \E a \in Ancestors(c) : clients[a].closeReturned THEN 1
  ELSE 0

\* ------------------------------------------------------------ call stacks
Frame(op, c, arg, body) ==
  [ op |-> op, c |-> c, pc |-> "start", x |-> 0, arg |-> arg, body |-> body,
    after |-> After(c), did |-> {}, val |-> "" ]

\* The frames a call pushes. Do and DoWithMarshal begin by calling IsClosed
\* (client.go:576, 525) and NewChild by calling Clone (client.go:215).
Enter(op, c, arg, body) ==
  IF op \in {"Do", "DoWithMarshal"}
  THEN << Frame("IsClosed", c, "", ""),
          [Frame(op, c, arg, body) EXCEPT !.pc = "checked"] >>
  ELSE IF op = "NewChild"
  THEN << Frame("Clone", c, "", ""),
          [Frame(op, c, arg, body) EXCEPT !.pc = "cloned"] >>
  ELSE << Frame(op, c, arg, body) >>

NoRet == [ op |-> "", c |-> 0, cl |-> 0, val |-> "", after |-> 0, did |-> {} ]

Top(t) == stack[t][1]
Running(t) == crashed = "" /\ stack[t] # <<>>
At(t, op, pc) == Running(t) /\ Top(t).op = op /\ Top(t).pc = pc

SetTop(t, f) == [stack EXCEPT ![t] = <<f>> \o Tail(stack[t])]
Goto(t, pc) == SetTop(t, [Top(t) EXCEPT !.pc = pc])
\* the caller f moves to pc and calls op on c
CallFrom(t, f, pc, op, c, arg) ==
  [stack EXCEPT ![t] = Enter(op, c, arg, "") \o <<[f EXCEPT !.pc = pc]>>
                        \o Tail(stack[t])]
Call(t, pc, op, c) == CallFrom(t, Top(t), pc, op, c, "")

RetRec(t, cl, val) ==
  [ op |-> Top(t).op, c |-> Top(t).c, cl |-> cl, val |-> val,
    after |-> Top(t).after, did |-> Top(t).did ]

\* return (cl, val) to the caller; a client returned to a caller goroutine by
\* Clone or NewChild becomes one the callers can use
Return(t, cl, val) ==
  /\ stack' = [stack EXCEPT ![t] = Tail(stack[t])]
  /\ ret' = IF t \in Users THEN [ret EXCEPT ![t] = RetRec(t, cl, val)] ELSE ret
  /\ visible' = IF Len(stack[t]) = 1 /\ t \in Users /\ cl # 0
                   /\ Top(t).op \in {"Clone", "NewChild"}
                THEN visible \cup {cl} ELSE visible

Panic(what) ==
  /\ crashed' = what
  /\ UNCHANGED <<stack, ret, visible>>


\* ------------------------------------------------------------------ locks
\* Mu.Lock() can be taken: no writer and no reader holds it
CanLock(c) == clients[c].muW = 0 /\ clients[c].muR = 0
\* Mu.RLock() can be taken: no writer holds it
CanRLock(c) == clients[c].muW = 0

\* ------------------------------------------------------------------ Close
\* a Close that does not look at the flag
CloseAlreadyUnchecked(c) == FALSE

\* client.go:441  if c.closed
CloseAlready(c) == clients[c].closed

\* an already-closed path that returns without cancelling
CloseAgainNoCancel(c) ==
  [clients EXCEPT ![c].closeReturned = TRUE]

\* client.go:442-448  the already-closed path: cancel the context, return nil
CloseAgain(c) ==
  [clients EXCEPT ![c].cancelled = TRUE, ![c].closeReturned = TRUE]

\* client.go:440-452  under the write lock: return at once if already closed,
\* else mark closed
CloseMark(t) ==
  /\ At(t, "Close", "start")
  /\ LET c == Top(t).c IN
       /\ CanLock(c)
       /\ IF CloseAlready(c)
          THEN /\ clients' = CloseAgain(c)
               /\ Return(t, 0, "again")
          ELSE /\ clients' = [clients EXCEPT ![c].closed = TRUE,
                                             ![c].shutdowns = @ + 1]
               /\ stack' = Goto(t, "drain")
               /\ UNCHANGED <<ret, visible>>
  /\ UNCHANGED <<extCancel, ops, budget, crashed, hasAuth, hasLimiter, mapVars, redVars, rateVars, newVars, tokVars, basicVars, digVars, pathVars, methVars, respVars, treqVars, lockVars, authVars>>

\* client.go:455-474  the "closing" log line through c.logger, then the
\* polling goroutine saw activeRequests at zero
CloseDrained(t) ==
  /\ At(t, "Close", "drain")
  /\ clients[Top(t).c].activeRequests = 0
  /\ IF ~clients[Top(t).c].logger
     THEN Panic("Close: nil logger")
     ELSE /\ stack' = Goto(t, "cleanup")
          /\ UNCHANGED <<ret, visible, crashed>>
  /\ UNCHANGED <<clients, extCancel, ops, budget, hasAuth, hasLimiter, mapVars, redVars, rateVars, newVars, tokVars, basicVars, digVars, pathVars, methVars, respVars, treqVars, lockVars, authVars>>

\* client.go:455-479  the same, the timeout context ending first
\* (Options.Timeout may be any duration >= 0, so the deadline can pass at any
\* moment)
CloseTimedOut(t) ==
  /\ At(t, "Close", "drain")
  /\ clients[Top(t).c].activeRequests > 0
  /\ IF ~clients[Top(t).c].logger
     THEN Panic("Close: nil logger")
     ELSE /\ stack' = SetTop(t, [Top(t) EXCEPT !.pc = "cleanup", !.val = "timeout"])
          /\ UNCHANGED <<ret, visible, crashed>>
  /\ UNCHANGED <<clients, extCancel, ops, budget, hasAuth, hasLimiter, mapVars, redVars, rateVars, newVars, tokVars, basicVars, digVars, pathVars, methVars, respVars, treqVars, lockVars, authVars>>

Range(s) == {s[i] : i \in 1..Len(s)}

\* client.go:482-510  take the write lock (kept until return), cancel the
\* context, release the configuration, start one goroutine per closer
CloseCleanup(t) ==
  /\ At(t, "Close", "cleanup")
  /\ LET c == Top(t).c
         kids == Range(clients[c].closer)
     IN /\ CanLock(c)
        /\ clients' = [clients EXCEPT ![c].muW = t, ![c].cancelled = TRUE,
                                      ![c].config = FALSE]
        /\ stack' = [u \in Threads |->
                       IF u = t THEN <<[Top(t) EXCEPT !.pc = "wait"]>> \o Tail(stack[t])
                       ELSE IF \E k \in kids : u = Gor(k)
                       THEN Enter("Close", u - NUsers, "", "")
                       ELSE stack[u]]
  /\ UNCHANGED <<extCancel, ret, ops, visible, budget, crashed, hasAuth, hasLimiter, mapVars, redVars, rateVars, newVars, tokVars, basicVars, digVars, pathVars, methVars, respVars, treqVars, lockVars, authVars>>

\* client.go:511-516  wg.Wait(), then closer = nil, logger = nil, unlock
CloseFinish(t) ==
  /\ At(t, "Close", "wait")
  /\ LET c == Top(t).c IN
       /\ \A k \in Range(clients[c].closer) : stack[Gor(k)] = <<>>
       /\ clients' = [clients EXCEPT ![c].closer = <<>>, ![c].logger = FALSE,
                                     ![c].muW = 0, ![c].closeReturned = TRUE]
       /\ Return(t, 0, "first")
  /\ UNCHANGED <<extCancel, ops, budget, crashed, hasAuth, hasLimiter, mapVars, redVars, rateVars, newVars, tokVars, basicVars, digVars, pathVars, methVars, respVars, treqVars, lockVars, authVars>>

\* --------------------------------------------------------------- IsClosed
\* an IsClosed that does not look at the context
IsClosedContextIgnored(c) == FALSE

\* client.go:749  if c.context.Err() != nil
IsClosedContextDone(c) == CtxDone(c)

\* client.go:747-767  under the read lock: context first, then the flag
IsClosedCheck(t) ==
  /\ At(t, "IsClosed", "start")
  /\ LET c == Top(t).c IN
       /\ CanRLock(c)
       /\ IF IsClosedContextDone(c)
          THEN /\ stack' = Goto(t, "ctxdone")
               /\ UNCHANGED <<ret, visible>>
          ELSE IF clients[c].closed
          THEN /\ stack' = Call(t, "done", "Close", c)
               /\ UNCHANGED <<ret, visible>>
          ELSE Return(t, 0, "false")
  /\ UNCHANGED <<clients, extCancel, ops, budget, crashed, hasAuth, hasLimiter, mapVars, redVars, rateVars, newVars, tokVars, basicVars, digVars, pathVars, methVars, respVars, treqVars, lockVars, authVars>>

\* client.go:752-756  after RUnlock: Close() if the flag is not set; true
IsClosedCtx(t) ==
  /\ At(t, "IsClosed", "ctxdone")
  /\ IF ~clients[Top(t).c].closed
     THEN /\ stack' = Call(t, "done", "Close", Top(t).c)
          /\ UNCHANGED <<ret, visible>>
     ELSE Return(t, 0, "true")
  /\ UNCHANGED <<clients, extCancel, ops, budget, crashed, hasAuth, hasLimiter, mapVars, redVars, rateVars, newVars, tokVars, basicVars, digVars, pathVars, methVars, respVars, treqVars, lockVars, authVars>>

\* client.go:756, 763  return true once the inner Close is back
IsClosedDone(t) ==
  /\ At(t, "IsClosed", "done")
  /\ Return(t, 0, "true")
  /\ UNCHANGED <<clients, extCancel, ops, budget, crashed, hasAuth, hasLimiter, mapVars, redVars, rateVars, newVars, tokVars, basicVars, digVars, pathVars, methVars, respVars, treqVars, lockVars, authVars>>

\* ------------------------------------------------------------------ Clone
\* a Clone that does not look at the flag
CloneRefusedNever(c) == FALSE

\* client.go:242  if c.closed
CloneRefused(c) == clients[c].closed

\* a clone whose context is derived from context.Background()
CloneContextDetached(c) == Background

\* client.go:270  the context the clone's context is derived from
CloneContext(c) == c

FreeClient == CHOOSE n \in Clients : ~clients[n].alloc /\
                 \A m \in Clients : ~clients[m].alloc => n <= m

\* client.go:240-281  under the read lock: nil if closed, else build the clone
CloneCopy(t) ==
  /\ At(t, "Clone", "start")
  /\ LET c == Top(t).c IN
       /\ CanRLock(c)
       /\ IF CloneRefused(c)
          THEN /\ Return(t, 0, "nil")
               /\ UNCHANGED clients
          ELSE /\ clients' = [clients EXCEPT ![FreeClient] =
                    [NewClient EXCEPT !.parent = c, !.ctx = CloneContext(c),
                                      !.closed = clients[c].closed]]
               /\ stack' = SetTop(t, [Top(t) EXCEPT !.pc = "register",
                                                     !.x = FreeClient])
               /\ UNCHANGED <<ret, visible>>
  /\ UNCHANGED <<extCancel, ops, budget, crashed, hasAuth, hasLimiter, mapVars, redVars, rateVars, newVars, tokVars, basicVars, digVars, pathVars, methVars, respVars, treqVars, lockVars, authVars>>

\* client.go:285-289  under the write lock: append clone.Close to c.closer
CloneRegister(t) ==
  /\ At(t, "Clone", "register")
  /\ LET c == Top(t).c IN
       /\ CanLock(c)
       /\ clients' = [clients EXCEPT ![c].closer = Append(@, Top(t).x)]
       /\ Return(t, Top(t).x, "clone")
  /\ UNCHANGED <<extCancel, ops, budget, crashed, hasAuth, hasLimiter, mapVars, redVars, rateVars, newVars, tokVars, basicVars, digVars, pathVars, methVars, respVars, treqVars, lockVars, authVars>>

\* --------------------------------------------------------------- NewChild
\* client.go:217-230  child.URL and c.logger are used without a check
NewChildPath(t) ==
  /\ At(t, "NewChild", "cloned")
  /\ IF ret[t].cl = 0
     THEN Panic("NewChild: nil clone")
     ELSE IF ~clients[Top(t).c].logger
     THEN Panic("NewChild: nil logger")
     ELSE /\ Return(t, ret[t].cl, "child")
          /\ UNCHANGED crashed
  /\ UNCHANGED <<clients, extCancel, ops, budget, hasAuth, hasLimiter, mapVars, redVars, rateVars, newVars, tokVars, basicVars, digVars, pathVars, methVars, respVars, treqVars, lockVars, authVars>>


\* --------------------------------------------------------------------- Do
\* a Do that goes on whatever IsClosed said
DoRefusedNever(isClosed) == FALSE

\* client.go:576-578  if main.IsClosed() { return nil, ErrClientClosed }
DoRefused(isClosed) == isClosed

\* client.go:576-582  refuse a closed client, else clone it
DoChecked(t) ==
  /\ At(t, "Do", "checked")
  /\ IF DoRefused(ret[t].val = "true")
     THEN Return(t, 0, "ErrClientClosed")
     ELSE /\ stack' = Call(t, "cloned", "Clone", Top(t).c)
          /\ UNCHANGED <<ret, visible>>
  /\ UNCHANGED <<clients, extCancel, ops, budget, crashed, hasAuth, hasLimiter, mapVars, redVars, rateVars, newVars, tokVars, basicVars, digVars, pathVars, methVars, respVars, treqVars, lockVars, authVars>>

\* client.go:582-590  c := main.Clone(), unchecked; count the request on main
DoCount(t) ==
  /\ At(t, "Do", "cloned")
  /\ clients' = [clients EXCEPT ![Top(t).c].activeRequests = @ + 1]
  /\ stack' = SetTop(t, [Top(t) EXCEPT !.pc = "body", !.x = ret[t].cl])
  /\ UNCHANGED <<extCancel, ret, ops, visible, budget, crashed, hasAuth, hasLimiter, mapVars, redVars, rateVars, newVars, tokVars, basicVars, digVars, pathVars, methVars, respVars, treqVars, lockVars, authVars>>

\* client.go:593-670  empty method; c.Query, c.URL, c.Header read through the
\* clone pointer; the authenticator's Header; the "executing" log line
DoBuild(t) ==
  /\ At(t, "Do", "body")
  /\ LET f == Top(t)
         auth == hasAuth /\ clients[f.x].config
     IN IF f.arg = ""
        THEN /\ stack' = SetTop(t, [f EXCEPT !.pc = "defer", !.val = "ErrInvalidMethod"])
             /\ UNCHANGED crashed
        ELSE IF f.x = 0
        THEN /\ crashed' = "Do: nil clone"
             /\ UNCHANGED stack
        ELSE \E authOK \in BOOLEAN :
               IF auth /\ ~authOK
               THEN /\ stack' = SetTop(t, [f EXCEPT !.pc = "defer", !.val = "ErrAuth",
                                                    !.did = @ \cup {"auth"}])
                    /\ UNCHANGED crashed
               ELSE IF ~clients[f.x].logger
               THEN /\ crashed' = "Do: nil logger"
                    /\ UNCHANGED stack
               ELSE /\ stack' = SetTop(t, [f EXCEPT !.pc = "wait",
                          !.did = IF auth THEN @ \cup {"auth"} ELSE @])
                    /\ UNCHANGED crashed
  /\ UNCHANGED <<clients, extCancel, ret, ops, visible, budget, hasAuth, hasLimiter, mapVars, redVars, rateVars, newVars, tokVars, basicVars, digVars, pathVars, methVars, respVars, treqVars, lockVars, authVars>>

\* client.go:675-679  RateLimiter.Wait(c.context): an error when the context
\* is done, and whenever the limiter decides so
DoWait(t) ==
  /\ At(t, "Do", "wait")
  /\ LET f == Top(t) IN
       IF hasLimiter /\ clients[f.x].config
       THEN \E waitOK \in BOOLEAN :
              /\ CtxDone(f.x) => ~waitOK
              /\ stack' = SetTop(t, [f EXCEPT
                            !.pc = IF waitOK THEN "send" ELSE "defer",
                            !.val = IF waitOK THEN "" ELSE "ErrLimiter",
                            !.did = @ \cup {"wait"}])
       ELSE stack' = Goto(t, "send")
  /\ UNCHANGED <<clients, extCancel, ret, ops, visible, budget, crashed, hasAuth, hasLimiter, mapVars, redVars, rateVars, newVars, tokVars, basicVars, digVars, pathVars, methVars, respVars, treqVars, lockVars, authVars>>

\* client.go:681-684  client.Do(req): nothing goes out on a done context; a
\* request that went out ends with a response or a transport error
DoSend(t) ==
  /\ At(t, "Do", "send")
  /\ LET f == Top(t) IN
       IF CtxDone(f.x)
       THEN stack' = SetTop(t, [f EXCEPT !.pc = "defer", !.val = "ErrTransport"])
       ELSE \E answered \in BOOLEAN :
              stack' = SetTop(t, [f EXCEPT
                         !.pc = IF answered THEN "respond" ELSE "defer",
                         !.val = IF answered THEN "" ELSE "ErrTransport",
                         !.did = @ \cup {"send"}])
  /\ UNCHANGED <<clients, extCancel, ret, ops, visible, budget, crashed, hasAuth, hasLimiter, mapVars, redVars, rateVars, newVars, tokVars, basicVars, digVars, pathVars, methVars, respVars, treqVars, lockVars, authVars>>

\* client.go:688-740  calculateErrorRate locks the clone; the "HTTP request" log
\* line; body read and unmarshal succeed or fail
DoRespond(t) ==
  /\ At(t, "Do", "respond")
  /\ LET f == Top(t) IN
       /\ CanLock(f.x)
       /\ IF ~clients[f.x].logger
          THEN /\ crashed' = "Do: nil logger"
               /\ UNCHANGED stack
          ELSE /\ \E v \in {"ok", "ErrRequestFailed"} :
                    stack' = SetTop(t, [f EXCEPT !.pc = "defer", !.val = v])
               /\ UNCHANGED crashed
  /\ UNCHANGED <<clients, extCancel, ret, ops, visible, budget, hasAuth, hasLimiter, mapVars, redVars, rateVars, newVars, tokVars, basicVars, digVars, pathVars, methVars, respVars, treqVars, lockVars, authVars>>

\* a deferred call that leaves the counter as it is
DoDeferredAddNone(n) == n

\* client.go:590  defer atomic.AddInt32(&main.activeRequests, -1)
DoDeferredAdd(n) == n - 1

\* client.go:583-590  the deferred calls, last registered first: the counter
\* goes down, then c.Close() on the clone pointer, unchecked
DoDefer(t) ==
  /\ At(t, "Do", "defer")
  /\ LET f == Top(t) IN
       /\ clients' = [clients EXCEPT ![f.c].activeRequests = DoDeferredAdd(@)]
       /\ IF f.x = 0
          THEN /\ crashed' = "Do: nil clone"
               /\ UNCHANGED stack
          ELSE /\ stack' = Call(t, "closed", "Close", f.x)
               /\ UNCHANGED crashed
  /\ UNCHANGED <<extCancel, ret, ops, visible, budget, hasAuth, hasLimiter, mapVars, redVars, rateVars, newVars, tokVars, basicVars, digVars, pathVars, methVars, respVars, treqVars, lockVars, authVars>>

\* Do returns what its body decided
DoReturn(t) ==
  /\ At(t, "Do", "closed")
  /\ Return(t, 0, Top(t).val)
  /\ UNCHANGED <<clients, extCancel, ops, budget, crashed, hasAuth, hasLimiter, mapVars, redVars, rateVars, newVars, tokVars, basicVars, digVars, pathVars, methVars, respVars, treqVars, lockVars, authVars>>

\* ---------------------------------------------------------- DoWithMarshal
\* client.go:525-531  refuse a closed client, else clone it
MarshalChecked(t) ==
  /\ At(t, "DoWithMarshal", "checked")
  /\ IF ret[t].val = "true"
     THEN Return(t, 0, "ErrClientClosed")
     ELSE /\ stack' = Call(t, "cloned", "Clone", Top(t).c)
          /\ UNCHANGED <<ret, visible>>
  /\ UNCHANGED <<clients, extCancel, ops, budget, crashed, hasAuth, hasLimiter, mapVars, redVars, rateVars, newVars, tokVars, basicVars, digVars, pathVars, methVars, respVars, treqVars, lockVars, authVars>>

\* client.go:531-548  c := main.Clone(), unchecked; c.Do on it, after Marshal
\* and c.Header.Set when there is a body
MarshalCloned(t) ==
  /\ At(t, "DoWithMarshal", "cloned")
  /\ LET f == Top(t)
         c == ret[t].cl
     IN IF c = 0
        THEN Panic("DoWithMarshal: nil clone")
        ELSE IF f.body = "nil"
        THEN /\ stack' = CallFrom(t, [f EXCEPT !.x = c], "done", "Do", c, f.arg)
             /\ UNCHANGED <<ret, visible, crashed>>
        ELSE IF ~clients[c].logger
        THEN Panic("DoWithMarshal: nil logger")
        ELSE IF f.body = "unmarshalable"
        THEN /\ Return(t, 0, "ErrMarshal")
             /\ UNCHANGED crashed
        ELSE IF ~clients[c].config
        THEN Panic("DoWithMarshal: nil header map")
        ELSE /\ stack' = CallFrom(t, [f EXCEPT !.x = c], "done", "Do", c, f.arg)
             /\ UNCHANGED <<ret, visible, crashed>>
  /\ UNCHANGED <<clients, extCancel, ops, budget, hasAuth, hasLimiter, mapVars, redVars, rateVars, newVars, tokVars, basicVars, digVars, pathVars, methVars, respVars, treqVars, lockVars, authVars>>

\* client.go:534, 548  return c.Do(...)
MarshalDone(t) ==
  /\ At(t, "DoWithMarshal", "done")
  /\ stack' = [stack EXCEPT ![t] = Tail(stack[t])]
  /\ ret' = [ret EXCEPT ![t] = [ret[t] EXCEPT !.op = "DoWithMarshal",
                                   !.c = Top(t).c, !.after = Top(t).after]]
  /\ UNCHANGED <<clients, extCancel, ops, visible, budget, crashed, hasAuth, hasLimiter, mapVars, redVars, rateVars, newVars, tokVars, basicVars, digVars, pathVars, methVars, respVars, treqVars, lockVars, authVars>>

\* ----------------------------------------------------- caller goroutines
\* client values an operation may allocate
Need(op) ==
  IF op = "DoWithMarshal" THEN 2
  ELSE IF op \in {"Do", "Clone", "NewChild"} THEN 1
  ELSE 0

Idle(t) == crashed = "" /\ stack[t] = <<>> /\ ops < MaxOps

Start(t, op, c, arg, body) ==
  /\ Idle(t)
  /\ c \in visible
  /\ budget >= Need(op)
  /\ budget' = budget - Need(op)
  /\ ops' = ops + 1
  /\ stack' = [stack EXCEPT ![t] = Enter(op, c, arg, body)]
  /\ ret' = [ret EXCEPT ![t] = NoRet]
  /\ UNCHANGED <<clients, extCancel, visible, crashed, hasAuth, hasLimiter, mapVars, redVars, rateVars, newVars, tokVars, basicVars, digVars, pathVars, methVars, respVars, treqVars, lockVars, authVars>>

Methods == {"", "GET"}
Bodies == {"nil", "payload", "unmarshalable"}

CallDo(t) == \E c \in Clients, m \in Methods : Start(t, "Do", c, m, "")
CallDoWithMarshal(t) ==
  \E c \in Clients, b \in Bodies : Start(t, "DoWithMarshal", c, "GET", b)
CallClone(t) == \E c \in Clients : Start(t, "Clone", c, "", "")
CallNewChild(t) == \E c \in Clients : Start(t, "NewChild", c, "", "")
CallClose(t) == \E c \in Clients : Start(t, "Close", c, "", "")
CallIsClosed(t) == \E c \in Clients : Start(t, "IsClosed", c, "", "")

\* the owner of the context given to New cancels it
CancelContext ==
  /\ crashed = ""
  /\ ~extCancel
  /\ extCancel' = TRUE
  /\ UNCHANGED <<clients, stack, ret, ops, visible, budget, crashed, hasAuth, hasLimiter, mapVars, redVars, rateVars, newVars, tokVars, basicVars, digVars, pathVars, methVars, respVars, treqVars, lockVars, authVars>>



\* =================================================== header and query maps
\* http.Header and url.Values are map[string][]string: a map from keys to
\* slices, a slice being a window (array, len) on a backing array whose
\* length is the capacity.
MaxMapOps == 3       \* map operations after New
Keys == {"a"}
Vals == {"1", "2"}
Fields == {"Header", "Query"}
Sides == {"src", "clone"}

NoSlice == [a |-> 0, n |-> 0]
EmptyMap == [k \in Keys |-> NoSlice]

\* what a reader of map m sees: the keys that are set and their values
ViewIn(h, m) ==
  [k \in {j \in Keys : m[j].a # 0} |-> SubSeq(h[m[k].a], 1, m[k].n)]
View(side, field) == ViewIn(heap, maps[side][field])

\* the zero value of the unused part of a backing array
Zeros(n) == [i \in 1..n |-> ""]

\* m.Set(k, v): m[k] = []string{v}, a fresh array
MapSet(h, m, k, v) ==
  [heap |-> Append(h, <<v>>),
   map |-> [m EXCEPT ![k] = [a |-> Len(h) + 1, n |-> 1]]]

\* m.Add(k, v): m[k] = append(m[k], v): in place when the array has room,
\* else into a fresh array of doubled capacity (capacity 1 from nil)
MapAdd(h, m, k, v) ==
  LET s == m[k] IN
  IF s.a = 0
  THEN MapSet(h, m, k, v)
  ELSE IF s.n < Len(h[s.a])
  THEN [heap |-> [h EXCEPT ![s.a][s.n + 1] = v],
        map |-> [m EXCEPT ![k].n = s.n + 1]]
  ELSE [heap |-> Append(h, SubSeq(h[s.a], 1, s.n) \o <<v>> \o Zeros(s.n - 1)),
        map |-> [m EXCEPT ![k] = [a |-> Len(h) + 1, n |-> s.n + 1]]]

\* m.Del(k)
MapDel(h, m, k) == [heap |-> h, map |-> [m EXCEPT ![k] = NoSlice]]

\* m[k][i] = v
MapWrite(h, m, k, i, v) ==
  [heap |-> [h EXCEPT ![m[k].a][i] = v], map |-> m]

RECURSIVE DeepCopy(_, _, _)
\* http.Header.Clone(): every value slice copied into storage of its own,
\* capacity cut to its length
DeepCopy(h, m, ks) ==
  IF ks = {} THEN [heap |-> h, map |-> m]
  ELSE LET k == CHOOSE j \in ks : TRUE
           r == DeepCopy(h, m, ks \ {k})
       IN IF m[k].a = 0 THEN r
          ELSE [heap |-> Append(r.heap, SubSeq(h[m[k].a], 1, m[k].n)),
                map |-> [r.map EXCEPT ![k] = [a |-> Len(r.heap) + 1, n |-> m[k].n]]]

\* client.go:264  Header: c.Header.Clone()
CloneHeader(h, m) == DeepCopy(h, m, Keys)

\* client.go:266  Query: maps.Clone(c.Query): the map is new, the slices in
\* it are the source's
CloneQuery(h, m) == [heap |-> h, map |-> m]

\* New (client.go:176-177): both maps empty
MapsInit ==
  /\ heap = <<>>
  /\ maps = [s \in Sides |-> [f \in Fields |-> EmptyMap]]
  /\ cloned = FALSE
  /\ last = ""
  /\ mops = 0

\* the map variables while another specification runs
MapsIdle == MapsInit

MapStep(side, field, r) ==
  /\ mops < MaxMapOps
  /\ side = "clone" => cloned
  /\ heap' = r.heap
  /\ maps' = [maps EXCEPT ![side][field] = r.map]
  /\ last' = side
  /\ mops' = mops + 1
  /\ UNCHANGED <<cloned, lifeVars, redVars, rateVars, newVars, tokVars, basicVars, digVars, pathVars, methVars, respVars, treqVars, lockVars, authVars>>

DoSet(side, field) ==
  \E k \in Keys, v \in Vals :
    MapStep(side, field, MapSet(heap, maps[side][field], k, v))

DoAdd(side, field) ==
  \E k \in Keys, v \in Vals :
    MapStep(side, field, MapAdd(heap, maps[side][field], k, v))

DoDel(side, field) ==
  \E k \in Keys :
    /\ maps[side][field][k].a # 0
    /\ MapStep(side, field, MapDel(heap, maps[side][field], k))

DoWrite(side, field) ==
  \E k \in Keys, v \in Vals :
    /\ maps[side][field][k].a # 0
    /\ \E i \in 1..maps[side][field][k].n :
         /\ heap[maps[side][field][k].a][i] # v
         /\ MapStep(side, field, MapWrite(heap, maps[side][field], k, i, v))

\* client.go:264-266  the maps of the clone
CloneMaps ==
  /\ ~cloned
  /\ LET hd == CloneHeader(heap, maps["src"]["Header"])
         qr == CloneQuery(hd.heap, maps["src"]["Query"])
     IN /\ heap' = qr.heap
        /\ maps' = [maps EXCEPT !["clone"] = [Header |-> hd.map, Query |-> qr.map]]
  /\ cloned' = TRUE
  /\ last' = ""
  /\ UNCHANGED <<mops, lifeVars, redVars, rateVars, newVars, tokVars, basicVars, digVars, pathVars, methVars, respVars, treqVars, lockVars, authVars>>

\* the lifecycle variables while another specification runs: no client built
LifeIdle ==
  /\ clients = [c \in Clients |-> NoClient]
  /\ extCancel = FALSE
  /\ stack = [t \in Threads |-> <<>>]
  /\ ret = [t \in Threads |-> NoRet]
  /\ ops = 0
  /\ visible = {}
  /\ budget = 0
  /\ crashed = ""
  /\ hasAuth = FALSE
  /\ hasLimiter = FALSE

NextMaps ==
  \/ CloneMaps
  \/ \E side \in Sides, field \in Fields :
       \/ DoSet(side, field) \/ DoAdd(side, field)
       \/ DoDel(side, field) \/ DoWrite(side, field)

\* ======================================================== redirect policy
MaxN == 2            \* largest Options.MaxRedirect tried

Hosts == {"client", "other"}     \* the host of c.URL, and another one
Schemes == {"http", "https"}

NoReq == [host |-> "", scheme |-> "", auth |-> FALSE, referer |-> FALSE]
NoOpt ==
  [ Follow |-> FALSE, FollowAuth |-> FALSE, FollowReferer |-> FALSE,
    OnlyHTTPS |-> FALSE, MaxRedirect |-> 0, RateLimiter |-> FALSE,
    traceNil |-> FALSE, authHeader |-> FALSE, hops |-> 0 ]

\* the check with the comparison turned strict
TooManyRedirectsStrict(nb, max) == nb > max

\* client.go:408-409  nb := len(via); if nb >= c.Options.MaxRedirect
TooManyRedirects(nb, max) == nb >= max

\* an Authorization header deleted whatever the host of the target
StripAuthAnyHost(host, followAuth) == ~followAuth

\* client.go:388  if req.URL.Host != c.URL.Host && !c.Options.FollowAuth
StripAuth(host, followAuth) == host # "client" /\ ~followAuth

\* the Follow option ignored
UseLastResponseNever(follow) == FALSE

\* client.go:373-375  if !c.Options.Follow { return http.ErrUseLastResponse }
UseLastResponse(follow) == ~follow

\* the scheme upgraded whatever the option
EnforceHTTPSAlways(onlyHTTPS, scheme) == scheme = "http"

\* client.go:415  if c.Options.OnlyHTTPS && req.URL.Scheme == "http"
EnforceHTTPS(onlyHTTPS, scheme) == onlyHTTPS /\ scheme = "http"

\* the initial send going out without a Wait
RateLimiterWaitSkipped(limiter, waitOK) == [err |-> "", waits |-> 0]

\* client.go:675-679  if c.Options.RateLimiter != nil: Wait(c.context), its
\* error returned
RateLimiterWait(limiter, waitOK) ==
  [ err |-> IF limiter /\ ~waitOK THEN "ErrLimiter" ELSE "",
    waits |-> IF limiter THEN 1 ELSE 0 ]

\* client.go:393-405  the entry appended for the hop: its URL, and the URL of
\* the last request of via when via holds more than one
TraceEntry(req, via) ==
  [ url |-> <<req.scheme, req.host>>,
    from |-> IF Len(via) > 1
             THEN <<via[Len(via)].scheme, via[Len(via)].host>>
             ELSE <<>> ]

\* client.go:372-430  the CheckRedirect callback: the error it returns, the
\* request and the trace as it leaves them, and the Wait calls it made
FollowRedirects(opt, trace, req, via, waitOK) ==
  IF UseLastResponse(opt.Follow)
  THEN [err |-> "ErrUseLastResponse", req |-> req, trace |-> trace, waits |-> 0]
  ELSE IF opt.traceNil
  THEN [err |-> "ErrNoTrace", req |-> req, trace |-> trace, waits |-> 0]
  ELSE
    LET r1 == IF ~opt.FollowReferer THEN [req EXCEPT !.referer = FALSE] ELSE req
        r2 == IF StripAuth(r1.host, opt.FollowAuth)
              THEN [r1 EXCEPT !.auth = FALSE] ELSE r1
        tr == Append(trace, TraceEntry(r2, via))
    IN IF TooManyRedirects(Len(via), opt.MaxRedirect)
       THEN [err |-> "ErrTooManyRedirects", req |-> r2, trace |-> tr, waits |-> 0]
       ELSE
         LET r3 == IF EnforceHTTPS(opt.OnlyHTTPS, r2.scheme)
                   THEN [r2 EXCEPT !.scheme = "https"] ELSE r2
         IN IF opt.RateLimiter /\ ~waitOK
            THEN [err |-> "ErrLimiter", req |-> r3, trace |-> tr, waits |-> 1]
            ELSE [err |-> "", req |-> r3, trace |-> tr,
                  waits |-> IF opt.RateLimiter THEN 1 ELSE 0]

\* the redirect variables while another specification runs
RedirectIdle ==
  /\ rOpt = NoOpt
  /\ rpc = "done"
  /\ rVia = <<>>
  /\ rReq = NoReq
  /\ rTrace = <<>>
  /\ rWaits = 0
  /\ rResult = ""

\* client.go:603-672  Do has built the request for c.URL and the transport
\* client whose CheckRedirect is c.FollowRedirects(&redirectsVia) and comes to
\* the rate limiter; hops is the
\* number of redirect answers the servers will give before a final one
RedirectInit ==
  /\ rOpt \in [ Follow : BOOLEAN, FollowAuth : BOOLEAN, FollowReferer : BOOLEAN,
                OnlyHTTPS : BOOLEAN, MaxRedirect : 0..MaxN, RateLimiter : BOOLEAN,
                traceNil : BOOLEAN, authHeader : BOOLEAN, hops : 0..(MaxN + 1) ]
  /\ rpc = "wait"
  /\ rVia = <<>>
  /\ rReq = [host |-> "client", scheme |-> "https", auth |-> rOpt.authHeader,
             referer |-> FALSE]
  /\ rTrace = <<>>
  /\ rWaits = 0
  /\ rResult = ""

\* client.go:674-679  the rate limiter's Wait before client.Do(req): on an
\* error Do returns it and nothing is sent
SendWait ==
  /\ rpc = "wait"
  /\ \E waitOK \in BOOLEAN :
       LET w == RateLimiterWait(rOpt.RateLimiter, waitOK) IN
         /\ rWaits' = rWaits + w.waits
         /\ rpc' = IF w.err = "" THEN "send" ELSE "done"
         /\ rResult' = w.err
  /\ UNCHANGED <<rOpt, rVia, rReq, rTrace, lifeVars, mapVars, rateVars, newVars, tokVars, basicVars, digVars, pathVars, methVars, respVars, treqVars, lockVars, authVars>>

\* the transport fails on the request (net/http Client.Do returning an error)
SendFails ==
  /\ rpc = "send"
  /\ rpc' = "done"
  /\ rResult' = "ErrTransport"
  /\ UNCHANGED <<rOpt, rVia, rReq, rTrace, rWaits, lifeVars, mapVars, rateVars, newVars, tokVars, basicVars, digVars, pathVars, methVars, respVars, treqVars, lockVars, authVars>>

\* the request goes out and the answer is a redirect to some URL: the
\* transport client builds the next request and calls CheckRedirect on it
SendRedirected ==
  /\ rpc = "send"
  /\ Len(rVia) < rOpt.hops
  /\ rVia' = Append(rVia, rReq)
  /\ \E h \in Hosts, sc \in Schemes :
       rReq' = [host |-> h, scheme |-> sc, auth |-> rOpt.authHeader, referer |-> TRUE]
  /\ rpc' = "check"
  /\ UNCHANGED <<rOpt, rTrace, rWaits, rResult, lifeVars, mapVars, rateVars, newVars, tokVars, basicVars, digVars, pathVars, methVars, respVars, treqVars, lockVars, authVars>>

\* the request goes out and the answer is final
SendAnswered ==
  /\ rpc = "send"
  /\ Len(rVia) = rOpt.hops
  /\ rVia' = Append(rVia, rReq)
  /\ rpc' = "done"
  /\ rResult' = "response"
  /\ UNCHANGED <<rOpt, rReq, rTrace, rWaits, lifeVars, mapVars, rateVars, newVars, tokVars, basicVars, digVars, pathVars, methVars, respVars, treqVars, lockVars, authVars>>

\* client.go:372-430 called by the transport client: http.ErrUseLastResponse
\* makes it return the redirect answer itself, any other error ends the call
\* with that error, nil lets the hop go out
CheckRedirect ==
  /\ rpc = "check"
  /\ \E waitOK \in BOOLEAN :
       LET r == FollowRedirects(rOpt, rTrace, rReq, rVia, waitOK) IN
         /\ rReq' = r.req
         /\ rTrace' = r.trace
         /\ rWaits' = rWaits + r.waits
         /\ rpc' = IF r.err = "" THEN "send" ELSE "done"
         /\ rResult' = IF r.err = "ErrUseLastResponse" THEN "last response" ELSE r.err
  /\ UNCHANGED <<rOpt, rVia, lifeVars, mapVars, rateVars, newVars, tokVars, basicVars, digVars, pathVars, methVars, respVars, treqVars, lockVars, authVars>>

NextRedirect ==
  SendWait \/ SendFails \/ SendRedirected \/ SendAnswered \/ CheckRedirect

\* ============================================================= error rate
MaxTime == 3         \* clock ticks tried
MaxCalls == 3        \* calculateErrorRate calls and completed requests tried
Minute == 2          \* time.Minute, the clock ticking every 30 seconds

Statuses == {200, 400}

\* float64(errorCount) / float64(len(newHistory)) * 100, kept as the fraction
NoRate == [errors |-> 0, total |-> 0]

\* client.go:349  IsError: statusCode >= 400
IsError(status) == status >= 400

\* client.go:336-339  entry.Timestamp.After(now.Add(-time.Minute))
TimestampAfter(ts, now) == ts > now - Minute

\* the ErrorHistory entry of an outcome (its URL left out)
Entry(now, status) == [ts |-> now, status |-> status, isError |-> IsError(status)]

ErrorCount(h) == Cardinality({i \in 1..Len(h) : h[i].isError})

\* client.go:330-366  the history as the call leaves it, and the rate returned
calculateErrorRate(history, now, status) ==
  LET newHistory == Append(SelectSeq(history, LAMBDA e : TimestampAfter(e.ts, now)),
                           Entry(now, status))
  IN [ history |-> newHistory,
       rate |-> [errors |-> ErrorCount(newHistory), total |-> Len(newHistory)] ]

\* the error-rate variables while another specification runs
RateIdle ==
  /\ eNow = 0
  /\ eHist = <<>>
  /\ eLog = <<>>
  /\ eRate = NoRate
  /\ dHist = <<>>
  /\ dDone = <<>>
  /\ dRate = NoRate

\* New: a client with no error history
RateInit == RateIdle

\* the clock moves on
RateTick ==
  /\ eNow < MaxTime
  /\ eNow' = eNow + 1
  /\ UNCHANGED <<eHist, eLog, eRate, dHist, dDone, dRate, lifeVars, mapVars, redVars, newVars, tokVars, basicVars, digVars, pathVars, methVars, respVars, treqVars, lockVars, authVars>>

\* client.go:330-366  c.calculateErrorRate(statusCode) on a client
Calculate ==
  /\ Len(eLog) + Len(dDone) < MaxCalls
  /\ \E status \in Statuses :
       LET r == calculateErrorRate(eHist, eNow, status) IN
         /\ eHist' = r.history
         /\ eRate' = r.rate
         /\ eLog' = Append(eLog, Entry(eNow, status))
  /\ UNCHANGED <<eNow, dHist, dDone, dRate, lifeVars, mapVars, redVars, newVars, tokVars, basicVars, digVars, pathVars, methVars, respVars, treqVars, lockVars, authVars>>

\* client.go:582-698  a Do on M gets its response: c := main.Clone() has an
\* empty ErrorHistory (client.go:267), ErrorRate is c.calculateErrorRate(...)
\* on that clone, and the deferred c.Close() drops the clone's history
DoCompletes ==
  /\ Len(eLog) + Len(dDone) < MaxCalls
  /\ \E status \in Statuses :
       LET r == calculateErrorRate(<<>>, eNow, status) IN
         /\ dRate' = r.rate
         /\ dDone' = Append(dDone, Entry(eNow, status))
  /\ UNCHANGED <<eNow, eHist, eLog, eRate, dHist, lifeVars, mapVars, redVars, newVars, tokVars, basicVars, digVars, pathVars, methVars, respVars, treqVars, lockVars, authVars>>

NextRate == RateTick \/ Calculate \/ DoCompletes

\* ==================================================================== New
\* serverURL: "" | "/" | a text url.Parse refuses | scheme://host[?query][/]
ServerURLs ==
  { [kind |-> k, scheme |-> "", query |-> "none", slash |-> FALSE] :
      k \in {"empty", "slash", "unparsable"} }
  \cup [ kind : {"url"}, scheme : {"http", "https"},
         query : {"none", "valid", "invalid"}, slash : BOOLEAN ]

\* opt: nil, or an Options value (the fields New looks at)
OptionValues ==
  {[nil |-> TRUE, OnlyHTTPS |-> FALSE, Timeout |-> 0, MaxRedirect |-> 0]}
  \cup [ nil : {FALSE}, OnlyHTTPS : BOOLEAN,
         Timeout : {0 - 1, 0, 1}, MaxRedirect : {0 - 1, 0, 1} ]

\* client.go:91-99  OptDefault
OptDefault == [nil |-> FALSE, OnlyHTTPS |-> TRUE, Timeout |-> 35, MaxRedirect |-> 2]

\* Client{}
ZeroClient ==
  [ zero |-> TRUE, closed |-> FALSE, logger |-> "nil", context |-> "nil",
    Options |-> [nil |-> FALSE, OnlyHTTPS |-> FALSE, Timeout |-> 0, MaxRedirect |-> 0],
    URL |-> [scheme |-> "", query |-> "none"] ]

NoResult == [err |-> "", client |-> ZeroClient]

\* client.go:134-136  a trailing slash is cut off: "/" becomes the empty text
\* (which url.Parse accepts), and url.Parse gives the scheme and the raw query
ParseURL(u) ==
  IF u.kind = "unparsable" THEN [ok |-> FALSE, scheme |-> "", query |-> "none"]
  ELSE [ok |-> TRUE, scheme |-> u.scheme, query |-> u.query]

\* a timeout check that refuses zero as well
NewTimeoutInvalidOrZero(timeout) == timeout <= 0

\* client.go:155  if opt.Timeout < 0
NewTimeoutInvalid(timeout) == timeout < 0

\* client.go:180, 193-196  main.URL = *parsedURL copies the parsed URL; the
\* later parsedURL.Scheme = "https" changes the parsed URL, not the copy
NewStoredScheme(parsedScheme, onlyHTTPS) == parsedScheme

\* client.go:123-199
New(ctx, serverURL, opt, logger) ==
  IF serverURL.kind = "empty"
  THEN [err |-> "ErrEmptyServerURL", client |-> ZeroClient]
  ELSE LET parsedURL == ParseURL(serverURL) IN
    IF ~parsedURL.ok
    THEN [err |-> "ErrInvalidURL", client |-> ZeroClient]
    ELSE IF ~opt.nil /\ NewTimeoutInvalid(opt.Timeout)
    THEN [err |-> "ErrInvalidTimeout", client |-> ZeroClient]
    ELSE IF ~opt.nil /\ opt.MaxRedirect < 0
    THEN [err |-> "ErrInvalidRedirectLimit", client |-> ZeroClient]
    ELSE IF parsedURL.query = "invalid"
    THEN [err |-> "ErrInvalidQuery", client |-> ZeroClient]
    ELSE
      LET options == IF opt.nil THEN OptDefault ELSE opt IN
      [ err |-> "",
        client |->
          [ zero |-> FALSE, closed |-> FALSE,
            logger |-> IF logger = "nil" THEN "default" ELSE logger,
            context |-> IF ctx = "nil" THEN "background" ELSE ctx,
            Options |-> options,
            URL |-> [scheme |-> NewStoredScheme(parsedURL.scheme, options.OnlyHTTPS),
                     query |-> parsedURL.query] ] ]

\* the New variables while another specification runs
NewIdle ==
  /\ nIn = [ctx |-> "nil", serverURL |-> CHOOSE u \in ServerURLs : u.kind = "empty",
            opt |-> CHOOSE o \in OptionValues : o.nil, logger |-> "nil"]
  /\ npc = "done"
  /\ nRes = NoResult
  /\ nClone = ZeroClient
  /\ nReq = {}

\* a caller is about to call New with some arguments
NewInit ==
  /\ nIn \in [ ctx : {"nil", "live", "cancelled"}, serverURL : ServerURLs,
               opt : OptionValues, logger : {"nil", "custom"} ]
  /\ npc = "call"
  /\ nRes = NoResult
  /\ nClone = ZeroClient
  /\ nReq = {}

\* client.go:123-199  New(ctx, serverURL, authenticator, opt, logger)
NewCall ==
  /\ npc = "call"
  /\ npc' = "done"
  /\ nRes' = New(nIn.ctx, nIn.serverURL, nIn.opt, nIn.logger)
  /\ UNCHANGED <<nIn, nClone, nReq, lifeVars, mapVars, redVars, rateVars, tokVars, basicVars, digVars, pathVars, methVars, respVars, treqVars, lockVars, authVars>>

\* client.go:247-268  Clone (and NewChild through it) copies URL and Options
NewClone ==
  /\ npc = "done" /\ nRes.err = "" /\ nClone.zero
  /\ nClone' = nRes.client
  /\ UNCHANGED <<nIn, npc, nRes, nReq, lifeVars, mapVars, redVars, rateVars, tokVars, basicVars, digVars, pathVars, methVars, respVars, treqVars, lockVars, authVars>>

\* client.go:582, 603-612  Do builds its request for c.URL.String(), c being
\* its own clone of the client it was called on
NewDo ==
  /\ npc = "done" /\ nRes.err = ""
  /\ \E who \in {"client", "clone"} :
       /\ who = "clone" => ~nClone.zero
       /\ nReq' = nReq \cup { [on |-> who,
                               scheme |-> IF who = "client" THEN nRes.client.URL.scheme
                                          ELSE nClone.URL.scheme] }
  /\ nReq' # nReq
  /\ UNCHANGED <<nIn, npc, nRes, nClone, lifeVars, mapVars, redVars, rateVars, tokVars, basicVars, digVars, pathVars, methVars, respVars, treqVars, lockVars, authVars>>

NextNew == NewCall \/ NewClone \/ NewDo

\* ======================================================= OAuth2 token
MaxTokTime == 4      \* clock ticks
MaxUpdates == 3      \* calls of Update
MaxLifetime == 2     \* expires_in of a token response, in clock ticks

\* expires_in values the token endpoint may declare
Lifetimes == 0..MaxLifetime

\* TokenResponse{}: no token, ExpireAt the zero time (before every clock value)
ZeroToken ==
  [Token |-> "", TokenType |-> "", Scope |-> "", ExpiresIn |-> 0, ExpireAt |-> 0]

\* the answers of the token endpoint: a status and a body that is empty, not
\* JSON (an HTML error page), an RFC 6749 5.2 error object or a 5.1 token
\* object (whose access_token may be empty)
TokenBodies == {"empty", "not JSON", "error JSON", "token JSON"}

NoAnswer == [kind |-> "none", status |-> 0, body |-> "empty", access_token |-> ""]

TokenOutcomes ==
  {[kind |-> "transport error", status |-> 0, body |-> "empty", access_token |-> ""]}
  \cup { o \in [ kind : {"response"}, status : {200, 500}, body : TokenBodies,
                 access_token : {"", "A", "B"} ] :
           o.body # "token JSON" => o.access_token = "" }

NoUpdate == [valid |-> FALSE, sent |-> 0, err |-> "", met |-> NoAnswer]

\* client.go:710-738 with oauth2_response.go:81-83  what Do returns to newToken
\* for a response: the unmarshaler (json.Unmarshal) runs on every non-empty
\* body, whatever the status, and its failure makes Do return ErrRequestFailed
DoUnmarshalFails(outcome) == outcome.body = "not JSON"

\* client_credentials.go:125  g.Token.ExpireAt.After(time.Now())
TokenValid(expireAt, now) == expireAt > now

\* client_credentials.go:162-223  newToken on the authenticator's client:
\*   closed (flag set): NewChild gets nil from Clone (client.go:242-245) and
\*     dereferences it (client.go:220), the process panics;
\*   cancelled (context done, flag not set): the child is made, its Do finds
\*     IsClosed and returns ErrClientClosed before anything is sent (client.go:576);
\*   open: Do sends the POST and returns its error if it has one (192-194);
\*     the token is stored only after a 200 with a non-empty body and a
\*     non-empty token (client_credentials.go:196-220)
newToken(token, http, now, outcome, lifetime) ==
  IF http = "closed"
  THEN [token |-> token, sent |-> 0, err |-> "panic", crash |-> "newToken: nil child"]
  ELSE IF http = "cancelled"
  THEN [token |-> token, sent |-> 0, err |-> "ErrClientClosed", crash |-> ""]
  ELSE IF outcome.kind = "transport error"
  THEN [token |-> token, sent |-> 1, err |-> "ErrRequestFailed", crash |-> ""]
  ELSE IF DoUnmarshalFails(outcome)
  THEN [token |-> token, sent |-> 1, err |-> "ErrRequestFailed", crash |-> ""]
  ELSE IF outcome.status # 200
  THEN [token |-> token, sent |-> 1, err |-> "ErrorUnexpectedStatusCode", crash |-> ""]
  ELSE IF outcome.body = "empty"
  THEN [token |-> token, sent |-> 1, err |-> "ErrorEmptyBody", crash |-> ""]
  ELSE IF outcome.access_token = ""
  THEN [token |-> token, sent |-> 1, err |-> "ErrorBodyUnmarshaler", crash |-> ""]
  ELSE [token |-> [Token |-> outcome.access_token, TokenType |-> "Bearer",
                   Scope |-> "read", ExpiresIn |-> lifetime,
                   ExpireAt |-> now + lifetime],
        sent |-> 1, err |-> "", crash |-> ""]

\* the token variables while another specification runs
TokenIdle ==
  /\ tNow = 1
  /\ tToken = ZeroToken
  /\ tHTTP = "open"
  /\ tSent = 0
  /\ tUpdates = MaxUpdates
  /\ tLast = NoUpdate
  /\ tCrashed = ""

\* client_credentials.go:87-115  NewClientCredentials: no token yet, and a
\* client that is the caller's or a new one
TokenInit ==
  /\ tNow = 1
  /\ tToken = ZeroToken
  /\ tHTTP = "open"
  /\ tSent = 0
  /\ tUpdates = 0
  /\ tLast = NoUpdate
  /\ tCrashed = ""

\* the clock advances
TokenTick ==
  /\ tCrashed = "" /\ tNow < MaxTokTime
  /\ tNow' = tNow + 1
  /\ UNCHANGED <<tToken, tHTTP, tSent, tUpdates, tLast, tCrashed,
                 lifeVars, mapVars, redVars, rateVars, newVars, basicVars, digVars, pathVars, methVars, respVars, treqVars, lockVars, authVars>>

\* the context of the authenticator's client is cancelled
TokenHTTPCancel ==
  /\ tCrashed = "" /\ tHTTP = "open"
  /\ tHTTP' = "cancelled"
  /\ UNCHANGED <<tNow, tToken, tSent, tUpdates, tLast, tCrashed,
                 lifeVars, mapVars, redVars, rateVars, newVars, basicVars, digVars, pathVars, methVars, respVars, treqVars, lockVars, authVars>>

\* client.go:438-517  the authenticator's client (or its parent) is closed
TokenHTTPClose ==
  /\ tCrashed = "" /\ tHTTP # "closed"
  /\ tHTTP' = "closed"
  /\ UNCHANGED <<tNow, tToken, tSent, tUpdates, tLast, tCrashed,
                 lifeVars, mapVars, redVars, rateVars, newVars, basicVars, digVars, pathVars, methVars, respVars, treqVars, lockVars, authVars>>

\* client_credentials.go:124-135  Update
Update ==
  /\ tCrashed = "" /\ tUpdates < MaxUpdates
  /\ tUpdates' = tUpdates + 1
  /\ IF TokenValid(tToken.ExpireAt, tNow)
     THEN /\ tLast' = [valid |-> TRUE, sent |-> 0, err |-> "", met |-> NoAnswer]
          /\ UNCHANGED <<tToken, tSent, tCrashed>>
     ELSE \E outcome \in TokenOutcomes, lifetime \in Lifetimes :
            LET r == newToken(tToken, tHTTP, tNow, outcome, lifetime) IN
            /\ tToken' = r.token
            /\ tSent' = tSent + r.sent
            /\ tCrashed' = r.crash
            /\ tLast' = [valid |-> FALSE, sent |-> r.sent, err |-> r.err,
                          met |-> IF r.sent = 1 THEN outcome ELSE NoAnswer]
  /\ UNCHANGED <<tNow, tHTTP, lifeVars, mapVars, redVars, rateVars, newVars, basicVars, digVars, pathVars, methVars, respVars, treqVars, lockVars, authVars>>

NextToken == TokenTick \/ TokenHTTPCancel \/ TokenHTTPClose \/ Update

\* ================================================================ Basic
MaxStr == 2          \* bytes of a user id or of a password
MaxHeaderCalls == 2  \* calls of Header

\* texts are sequences of bytes; the bytes a user id or password is made of
\* here: "a" and ":"
Bytes == {97, 58}

RECURSIVE TextsOfLen(_)
TextsOfLen(n) ==
  IF n = 0 THEN {<<>>}
  ELSE {<<b>> \o t : b \in Bytes, t \in TextsOfLen(n - 1)}

Texts == UNION {TextsOfLen(n) : n \in 0..MaxStr}

\* encoding/base64 StdEncoding: the byte of a 6-bit value
Base64Char(v) ==
  IF v < 26 THEN 65 + v
  ELSE IF v < 52 THEN 97 + (v - 26)
  ELSE IF v < 62 THEN 48 + (v - 52)
  ELSE IF v = 62 THEN 43 ELSE 47

\* encoding/base64 StdEncoding.EncodeToString: three bytes give four
\* characters, a last group of one or two bytes is padded with "="
RECURSIVE Base64(_)
Base64(s) ==
  IF Len(s) = 0 THEN <<>>
  ELSE IF Len(s) = 1
  THEN <<Base64Char(s[1] \div 4), Base64Char((s[1] % 4) * 16), 61, 61>>
  ELSE IF Len(s) = 2
  THEN <<Base64Char(s[1] \div 4), Base64Char((s[1] % 4) * 16 + s[2] \div 16),
         Base64Char((s[2] % 16) * 4), 61>>
  ELSE <<Base64Char(s[1] \div 4), Base64Char((s[1] % 4) * 16 + s[2] \div 16),
         Base64Char((s[2] % 16) * 4 + s[3] \div 64), Base64Char(s[3] % 64)>>
       \o Base64(SubSeq(s, 4, Len(s)))

\* part_013:33  BasicSeparator = ":"
BasicSeparator == <<58>>

\* part_013:35  BasicHeaderName = "Authorization"
BasicHeaderName == "Authorization"

\* part_013:37  BasicValuePrefix = "Basic "
BasicValuePrefix == <<66, 97, 115, 105, 99, 32>>

\* Basic{}
ZeroBasic == [UserID |-> <<>>, Password |-> <<>>]

NoBasic == [err |-> "", basic |-> ZeroBasic]

NoHeader == [name |-> "", value |-> <<>>, err |-> ""]

\* a constructor that looks at the password first
NewBasicPasswordFirst(userID, password) ==
  IF password = <<>> THEN [err |-> "ErrNoPassword", basic |-> ZeroBasic]
  ELSE IF userID = <<>> THEN [err |-> "ErrNoUserID", basic |-> ZeroBasic]
  ELSE [err |-> "", basic |-> [UserID |-> userID, Password |-> password]]

\* part_013:54-67  NewBasic
NewBasic(userID, password) ==
  IF userID = <<>> THEN [err |-> "ErrNoUserID", basic |-> ZeroBasic]
  ELSE IF password = <<>> THEN [err |-> "ErrNoPassword", basic |-> ZeroBasic]
  ELSE [err |-> "", basic |-> [UserID |-> userID, Password |-> password]]

\* user id and password joined without the colon
BasicUserPassNoSeparator(userid, password) == Base64(userid \o password)

\* part_013:101-104  BasicUserPass
BasicUserPass(userid, password) == Base64(userid \o BasicSeparator \o password)

\* part_013:83-87  Header: method, url and body are not looked at
BasicHeader(b, method, url, body) ==
  [ name |-> BasicHeaderName,
    value |-> BasicValuePrefix \o BasicUserPass(b.UserID, b.Password),
    err |-> "" ]

\* the Basic variables while another specification runs
BasicIdle ==
  /\ bIn = [userID |-> <<>>, password |-> <<>>]
  /\ bpc = "done"
  /\ bRes = NewBasic(<<>>, <<>>)
  /\ bHeader = NoHeader
  /\ bCalls = 0

\* a caller is about to call NewBasic with some user id and password
BasicInit ==
  /\ bIn \in [userID : Texts, password : Texts]
  /\ bpc = "call"
  /\ bRes = NoBasic
  /\ bHeader = NoHeader
  /\ bCalls = 0

\* part_013:54-67  NewBasic(userID, password)
NewBasicCall ==
  /\ bpc = "call"
  /\ bpc' = "done"
  /\ bRes' = NewBasic(bIn.userID, bIn.password)
  /\ UNCHANGED <<bIn, bHeader, bCalls,
                 lifeVars, mapVars, redVars, rateVars, newVars, tokVars, digVars, pathVars, methVars, respVars, treqVars, lockVars, authVars>>

\* part_013:83-87  b.Header(method, url, body) on the authenticator NewBasic gave
BasicHeaderCall ==
  /\ bpc = "done" /\ bRes.err = "" /\ bCalls < MaxHeaderCalls
  /\ \E method \in {"GET", "POST"}, url \in {"nil", "https://host/"},
        body \in {"nil", "bytes"} :
       bHeader' = BasicHeader(bRes.basic, method, url, body)
  /\ bCalls' = bCalls + 1
  /\ UNCHANGED <<bIn, bpc, bRes,
                 lifeVars, mapVars, redVars, rateVars, newVars, tokVars, digVars, pathVars, methVars, respVars, treqVars, lockVars, authVars>>

NextBasic == NewBasicCall \/ BasicHeaderCall

\* =============================================================== Digest
MaxDigestCalls == 1  \* calls of Response or Header on a Digest
MaxSets == 1         \* assignments to fields of the Digest values

\* a text is a sequence of atoms: a piece of literal text, or the hexadecimal
\* digest of a text under a hash function
Atom(x) == [h |-> "", s |-> x, of |-> <<>>]

T(x) == IF x = "" THEN <<>> ELSE <<Atom(x)>>

\* strings.Join
RECURSIVE Join(_, _)
Join(elems, sep) ==
  IF Len(elems) = 0 THEN <<>>
  ELSE IF Len(elems) = 1 THEN elems[1]
  ELSE elems[1] \o sep \o Join(Tail(elems), sep)

\* part_012:44-48
DigestSeparator == T(":")

DigestHeaderName == "Authorization"

DigestValuePrefix == T("Digest ")

\* part_012:53-55
DigestQOPAuth == T("auth")

DigestQOPAuthInt == T("auth-int")

\* part_012:59-69  the eight DigestAlgo names
DigestAlgos ==
  { "md5", "sha-256", "sha-512", "sha-512-256",
    "md5-sess", "sha-256-sess", "sha-512-sess", "sha-512-256-sess" }

\* part_012:415-428  the hash function Hash switches to, "" if none
HashFamily(algorithm) ==
  IF algorithm \in {"sha-256", "sha-256-sess"} THEN "sha256"
  ELSE IF algorithm \in {"sha-512-256", "sha-512-256-sess"} THEN "sha512_256"
  ELSE IF algorithm \in {"sha-512", "sha-512-sess"} THEN "sha512"
  ELSE IF algorithm \in {"md5", "md5-sess"} THEN "md5"
  ELSE ""

\* ErrUnknownAlgorithm.Error()
ErrUnknownAlgorithmText == T("unknown algorithm provided")

\* part_012:412-429  DigestParameters.Hash: the hexadecimal digest of s, or
\* the text of ErrUnknownAlgorithm
Hash(parameters, s) ==
  IF HashFamily(parameters.Algorithm) = "" THEN ErrUnknownAlgorithmText
  ELSE <<[h |-> HashFamily(parameters.Algorithm), s |-> "", of |-> s]>>

\* strings.HasSuffix(string(Algorithm), "-sess"), on the algorithm values used
HasSuffixSess(algorithm) ==
  algorithm \in {"md5-sess", "sha-256-sess", "sha-512-sess", "sha-512-256-sess", "x-sess"}

\* part_002:86-94  ascii.IsPrintable: no byte below 0x20 or with bit 0x80
NonASCIIBytes == {"xC3", "xA4"}

IsPrintable(s) == \A i \in 1..Len(s) : s[i].s \notin NonASCIIBytes

\* url.QueryEscape: a byte outside the unreserved set becomes %XX
RECURSIVE QueryEscape(_)
QueryEscape(s) ==
  IF Len(s) = 0 THEN <<>>
  ELSE (IF s[1].s = "xC3" THEN T("%C3")
        ELSE IF s[1].s = "xA4" THEN T("%A4")
        ELSE <<s[1]>>) \o QueryEscape(Tail(s))

\* Digest{}
ZeroParameters ==
  [ Algorithm |-> "", Realm |-> <<>>, URI |-> <<>>, QOP |-> <<>>, Nonce |-> <<>>,
    CNonce |-> <<>>, NC |-> <<>>, UserHash |-> FALSE, Opaque |-> <<>> ]

ZeroDigest == [Username |-> <<>>, Password |-> <<>>, Parameters |-> ZeroParameters]

\* a constructor that does not look at the URI
NewDigestNoURICheck(username, password, parameters) ==
  IF username = <<>> THEN [err |-> "ErrNoUserID", digest |-> ZeroDigest]
  ELSE IF password = <<>> THEN [err |-> "ErrNoPassword", digest |-> ZeroDigest]
  ELSE IF Hash(parameters, <<>>) = ErrUnknownAlgorithmText
  THEN [err |-> "ErrUnknownAlgorithm", digest |-> ZeroDigest]
  ELSE IF parameters.Realm = <<>> THEN [err |-> "ErrNoRealm", digest |-> ZeroDigest]
  ELSE IF parameters.Nonce = <<>> THEN [err |-> "ErrNoNonce", digest |-> ZeroDigest]
  ELSE [ err |-> "",
         digest |-> [Username |-> username, Password |-> password,
                     Parameters |-> parameters] ]

\* part_012:175-217  NewDigest
NewDigest(username, password, parameters) ==
  IF username = <<>> THEN [err |-> "ErrNoUserID", digest |-> ZeroDigest]
  ELSE IF password = <<>> THEN [err |-> "ErrNoPassword", digest |-> ZeroDigest]
  ELSE IF Hash(parameters, <<>>) = ErrUnknownAlgorithmText
  THEN [err |-> "ErrUnknownAlgorithm", digest |-> ZeroDigest]
  ELSE IF parameters.Realm = <<>> THEN [err |-> "ErrNoRealm", digest |-> ZeroDigest]
  ELSE IF parameters.Nonce = <<>> THEN [err |-> "ErrNoNonce", digest |-> ZeroDigest]
  ELSE IF parameters.URI = <<>> THEN [err |-> "ErrNoURI", digest |-> ZeroDigest]
  ELSE [ err |-> "",
         digest |-> [ Username |-> username, Password |-> password,
                      Parameters |->
                        [ Algorithm |-> parameters.Algorithm,
                          Realm |-> parameters.Realm,
                          URI |-> parameters.URI,
                          QOP |-> parameters.QOP,
                          Nonce |-> parameters.Nonce,
                          CNonce |-> parameters.CNonce,
                          NC |-> parameters.NC,
                          UserHash |-> parameters.UserHash,
                          Opaque |-> parameters.Opaque ] ] ]

\* part_012:339-355  A1
A1(d) ==
  LET a1 == Join(<<d.Username, d.Parameters.Realm, d.Password>>, DigestSeparator) IN
  IF HasSuffixSess(d.Parameters.Algorithm)
  THEN Join(<<Hash(d.Parameters, a1), d.Parameters.Nonce, d.Parameters.CNonce>>,
            DigestSeparator)
  ELSE a1

\* part_012:361-374  A2
A2(d, method, body) ==
  IF d.Parameters.QOP = DigestQOPAuthInt
  THEN Join(<<method, d.Parameters.URI, Hash(d.Parameters, body)>>, DigestSeparator)
  ELSE Join(<<method, d.Parameters.URI>>, DigestSeparator)

\* a response that takes the long form for "auth" only
ResponseAuthOnly(d, a1, a2) ==
  IF d.Parameters.QOP = DigestQOPAuth
  THEN Join(<<Hash(d.Parameters, a1), d.Parameters.Nonce, d.Parameters.NC,
              d.Parameters.CNonce, d.Parameters.QOP, Hash(d.Parameters, a2)>>,
            DigestSeparator)
  ELSE Join(<<Hash(d.Parameters, a1), d.Parameters.Nonce, Hash(d.Parameters, a2)>>,
            DigestSeparator)

\* part_012:382-400  Response
Response(d, a1, a2) ==
  IF d.Parameters.QOP = DigestQOPAuth \/ d.Parameters.QOP = DigestQOPAuthInt
  THEN Join(<<Hash(d.Parameters, a1), d.Parameters.Nonce, d.Parameters.NC,
              d.Parameters.CNonce, d.Parameters.QOP, Hash(d.Parameters, a2)>>,
            DigestSeparator)
  ELSE Join(<<Hash(d.Parameters, a1), d.Parameters.Nonce, Hash(d.Parameters, a2)>>,
            DigestSeparator)

\* part_012:118-123  digestValue
digestValue(key, value, quoted, asterisk) ==
  [key |-> key, value |-> value, quoted |-> quoted, asterisk |-> asterisk]

\* an entry that is never quoted
marshalEntryUnquoted(v) ==
  T(v.key) \o (IF v.asterisk THEN T("*") ELSE <<>>) \o T("=") \o v.value

\* part_012:138-155  one entry of marshal: key[*]=["]value["]
marshalEntry(v) ==
  T(v.key) \o (IF v.asterisk THEN T("*") ELSE <<>>) \o T("=")
  \o (IF v.quoted THEN T("\"") ELSE <<>>) \o v.value
  \o (IF v.quoted THEN T("\"") ELSE <<>>)

\* part_012:127-161  digestValues.marshal: entries with an empty value are
\* skipped, the others joined with ", "
marshal(values) ==
  Join(SelectSeq([i \in 1..Len(values) |->
                    IF values[i].value = <<>> THEN <<>> ELSE marshalEntry(values[i])],
                 LAMBDA e : e # <<>>),
       T(", "))

\* strconv.FormatBool
FormatBool(b) == IF b THEN T("true") ELSE T("false")

\* part_012:238-323  Header
DigestHeader(d, method, body) ==
  LET response == Hash(d.Parameters, Response(d, A1(d), A2(d, method, body)))
      username ==
        IF d.Parameters.UserHash
        THEN digestValue("username",
                         Hash(d.Parameters, d.Username \o T(":") \o d.Parameters.Realm),
                         TRUE, FALSE)
        ELSE IF IsPrintable(d.Username)
        THEN digestValue("username", d.Username, TRUE, FALSE)
        ELSE digestValue("username", T("UTF-8''") \o QueryEscape(d.Username),
                         FALSE, TRUE)
      values ==
        << digestValue("uri", d.Parameters.URI, TRUE, FALSE),
           digestValue("algorithm", T(d.Parameters.Algorithm), FALSE, FALSE),
           digestValue("response", response, TRUE, FALSE),
           digestValue("realm", d.Parameters.Realm, TRUE, FALSE),
           digestValue("nonce", d.Parameters.Nonce, TRUE, FALSE),
           digestValue("nc", d.Parameters.NC, FALSE, FALSE),
           digestValue("cnonce", d.Parameters.CNonce, TRUE, FALSE),
           digestValue("qop", d.Parameters.QOP, FALSE, FALSE),
           digestValue("opaque", d.Parameters.Opaque, TRUE, FALSE),
           digestValue("userhash", FormatBool(d.Parameters.UserHash), FALSE, FALSE),
           username >>
  IN [ name |-> DigestHeaderName,
       value |-> DigestValuePrefix \o marshal(values),
       err |-> "" ]

\* the values a user name, a password and the parameters are drawn from;
\* the third user name is not printable ASCII ("J" and the two bytes of a-umlaut)
UserNames == {<<>>, T("Mufasa"), <<Atom("J"), Atom("xC3"), Atom("xA4")>>}

Passwords == {<<>>, T("secret")}

ParameterValues ==
  [ Algorithm : DigestAlgos \cup {"", "MD5"},
    Realm : {<<>>, T("realm")},
    URI : {<<>>, T("/dir/index.html")},
    QOP : {<<>>, T("auth"), T("auth-int"), T("AUTH")},
    Nonce : {<<>>, T("nonce")},
    CNonce : {<<>>, T("cnonce")},
    NC : {<<>>, T("00000001")},
    UserHash : BOOLEAN,
    Opaque : {<<>>, T("opaque")} ]

\* the values an assignment can give to a field
FieldValues(field) ==
  IF field = "Username" THEN UserNames
  ELSE IF field = "Password" THEN Passwords
  ELSE {p[field] : p \in ParameterValues}

DigestFields == {"Username", "Password"} \cup DOMAIN ZeroParameters

NoOut ==
  [ op |-> "", on |-> "", a1 |-> <<>>, a2 |-> <<>>, method |-> <<>>,
    body |-> <<>>, name |-> "", out |-> <<>>, err |-> "" ]

\* the Digest variables while another specification runs
DigestIdle ==
  /\ gIn = [username |-> <<>>, password |-> <<>>, parameters |-> ZeroParameters]
  /\ gpc = "done"
  /\ gRes = [err |-> "", digest |-> ZeroDigest]
  /\ gHeap = <<ZeroDigest, ZeroDigest>>
  /\ gAuth = [client |-> 0, clone |-> 0]
  /\ gOut = NoOut
  /\ gCalls = 0

\* a caller is about to make a Digest from some user name, password and
\* parameters
DigestInit ==
  /\ gIn \in [username : UserNames, password : Passwords, parameters : ParameterValues]
  /\ gpc = "call"
  /\ gRes = [err |-> "", digest |-> ZeroDigest]
  /\ gHeap = <<ZeroDigest, ZeroDigest>>
  /\ gAuth = [client |-> 0, clone |-> 0]
  /\ gOut = NoOut
  /\ gCalls = 0

\* part_012:175-217  NewDigest(username, password, parameters); the Digest it
\* returns is kept at address 1
NewDigestCall ==
  /\ gpc = "call"
  /\ gpc' = "built"
  /\ gRes' = NewDigest(gIn.username, gIn.password, gIn.parameters)
  /\ gHeap' = [gHeap EXCEPT ![1] = gRes'.digest]
  /\ gAuth' = [gAuth EXCEPT !.client = IF gRes'.err = "" THEN 1 ELSE 0]
  /\ UNCHANGED <<gIn, gOut, gCalls,
                 lifeVars, mapVars, redVars, rateVars, newVars, tokVars, basicVars, pathVars, methVars, respVars, treqVars, lockVars, authVars>>

\* &auth.Digest{Username: ..., Parameters: ...} written by the caller, as the
\* tests do (digest_test.go:364-383)
DigestLiteral ==
  /\ gpc = "call"
  /\ gpc' = "literal"
  /\ gHeap' = [gHeap EXCEPT ![1] = [Username |-> gIn.username,
                                    Password |-> gIn.password,
                                    Parameters |-> gIn.parameters]]
  /\ gAuth' = [gAuth EXCEPT !.client = 1]
  /\ UNCHANGED <<gIn, gRes, gOut, gCalls,
                 lifeVars, mapVars, redVars, rateVars, newVars, tokVars, basicVars, pathVars, methVars, respVars, treqVars, lockVars, authVars>>

\* part_012:382-400  d.Response(a1, a2)
DigestResponseCall ==
  /\ gAuth.client # 0 /\ gCalls < MaxDigestCalls
  /\ \E a1 \in {T("a1")}, a2 \in {<<>>, T("a2")} :
       gOut' = [NoOut EXCEPT !.op = "Response", !.on = "client", !.a1 = a1, !.a2 = a2,
                             !.out = Response(gHeap[gAuth.client], a1, a2)]
  /\ gCalls' = gCalls + 1
  /\ UNCHANGED <<gIn, gpc, gRes, gHeap, gAuth,
                 lifeVars, mapVars, redVars, rateVars, newVars, tokVars, basicVars, pathVars, methVars, respVars, treqVars, lockVars, authVars>>

\* part_012:238-323  d.Header(method, url, body)
DigestHeaderCall ==
  /\ gAuth.client # 0 /\ gCalls < MaxDigestCalls
  /\ \E method \in {T("GET"), T("POST")}, body \in {<<>>, T("body")} :
       LET r == DigestHeader(gHeap[gAuth.client], method, body) IN
       gOut' = [NoOut EXCEPT !.op = "Header", !.on = "client", !.method = method,
                             !.body = body, !.name = r.name, !.out = r.value,
                             !.err = r.err]
  /\ gCalls' = gCalls + 1
  /\ UNCHANGED <<gIn, gpc, gRes, gHeap, gAuth,
                 lifeVars, mapVars, redVars, rateVars, newVars, tokVars, basicVars, pathVars, methVars, respVars, treqVars, lockVars, authVars>>

NextDigest ==
  NewDigestCall \/ DigestLiteral \/ DigestResponseCall \/ DigestHeaderCall

\* ---------------------------------------------------------- Digest.Clone
\* a clone that is the pointer it was made from
DigestCloneShared(mem, src) == [addr |-> src, heap |-> mem]

\* part_012:327-333  Clone returns the address of a new Digest holding the
\* user name, the password and a copy of the Parameters struct
DigestClone(mem, src) ==
  [ addr |-> 2,
    heap |-> [mem EXCEPT ![2] = [Username |-> mem[src].Username,
                                  Password |-> mem[src].Password,
                                  Parameters |-> mem[src].Parameters]] ]

\* a client holds a Digest that NewDigest accepted
DigestCloneInit ==
  /\ gIn \in [ username : UserNames \ {<<>>}, password : {T("secret")},
               parameters : {p \in ParameterValues :
                               /\ p.Algorithm \in {"md5", "sha-256-sess"}
                               /\ p.Realm # <<>> /\ p.URI # <<>> /\ p.Nonce # <<>>
                               /\ p.CNonce # <<>> /\ p.Opaque = <<>>
                               /\ p.QOP \in {<<>>, T("auth")}} ]
  /\ gpc = "built"
  /\ gRes = NewDigest(gIn.username, gIn.password, gIn.parameters)
  /\ gHeap = <<gRes.digest, ZeroDigest>>
  /\ gAuth = [client |-> 1, clone |-> 0]
  /\ gOut = NoOut
  /\ gCalls = 0

\* part_012:327-333  d.Clone() called by the holder of the Digest
DigestCloneCall ==
  /\ gAuth.client # 0 /\ gAuth.clone = 0
  /\ LET r == DigestClone(gHeap, gAuth.client) IN
       /\ gHeap' = r.heap
       /\ gAuth' = [gAuth EXCEPT !.clone = r.addr]
  /\ gOut' = [NoOut EXCEPT !.op = "Digest.Clone", !.on = "client"]
  /\ UNCHANGED <<gIn, gpc, gRes, gCalls,
                 lifeVars, mapVars, redVars, rateVars, newVars, tokVars, basicVars, pathVars, methVars, respVars, treqVars, lockVars, authVars>>

\* client.go:277-279  Client.Clone: clone.Auth = c.Auth.Clone()
ClientCloneCall ==
  /\ gAuth.client # 0 /\ gAuth.clone = 0
  /\ LET r == DigestClone(gHeap, gAuth.client) IN
       /\ gHeap' = r.heap
       /\ gAuth' = [gAuth EXCEPT !.clone = r.addr]
  /\ gOut' = [NoOut EXCEPT !.op = "Client.Clone", !.on = "client"]
  /\ UNCHANGED <<gIn, gpc, gRes, gCalls,
                 lifeVars, mapVars, redVars, rateVars, newVars, tokVars, basicVars, pathVars, methVars, respVars, treqVars, lockVars, authVars>>

\* an assignment to a field of the Digest, through the pointer the client
\* holds or through the one its clone holds (clone.Parameters.NC = ...)
DigestSet ==
  /\ gCalls < MaxSets
  /\ \E who \in {"client", "clone"}, field \in DigestFields :
       \E value \in FieldValues(field) :
         /\ gAuth[who] # 0
         /\ gHeap' = IF field \in {"Username", "Password"}
                     THEN [gHeap EXCEPT ![gAuth[who]][field] = value]
                     ELSE [gHeap EXCEPT ![gAuth[who]].Parameters[field] = value]
         /\ gOut' = [NoOut EXCEPT !.op = "Set", !.on = who]
  /\ gCalls' = gCalls + 1
  /\ UNCHANGED <<gIn, gpc, gRes, gAuth,
                 lifeVars, mapVars, redVars, rateVars, newVars, tokVars, basicVars, pathVars, methVars, respVars, treqVars, lockVars, authVars>>

NextDigestClone == DigestCloneCall \/ ClientCloneCall \/ DigestSet

\* ======================================================= NewChild paths
MaxPath == 3         \* characters of a path given to New or to NewChild
MaxDepth == 2        \* calls of NewChild, each on the child of the one before

\* paths are sequences of characters; the characters used here
PathChars == {"/", "a"}

RECURSIVE PathsOfLen(_)
PathsOfLen(n) ==
  IF n = 0 THEN {<<>>}
  ELSE {<<c>> \o t : c \in PathChars, t \in PathsOfLen(n - 1)}

Paths == UNION {PathsOfLen(n) : n \in 0..MaxPath}

NoURL == [scheme |-> "", host |-> "", path |-> <<>>, query |-> ""]

\* path.go:5-19  PathFormatting
PathFormatting(p) ==
  IF p = <<>> \/ p = <<"/">> THEN <<"/">>
  ELSE LET q == IF p[1] # "/" THEN <<"/">> \o p ELSE p IN
       IF q[Len(q)] = "/" THEN SubSeq(q, 1, Len(q) - 1) ELSE q

\* client.go:134-136, 138, 180-181  the URL New stores for https://h<path>?k=v:
\* one trailing slash is cut off the text, url.Parse gives the path, and the
\* stored path is PathFormatting of it
NewURL(path) ==
  LET cut == IF path # <<>> /\ path[Len(path)] = "/"
             THEN SubSeq(path, 1, Len(path) - 1) ELSE path
  IN [scheme |-> "https", host |-> "h", path |-> PathFormatting(cut), query |-> "k=v"]

\* client.go:214-231 with 265  NewChild: the clone gets a copy of the URL
\* value, and its path is extended when the argument is not empty
NewChildURL(url, path) ==
  IF path = <<>> THEN url
  ELSE LET newPath == PathFormatting(path) IN
       IF url.path = <<"/">> THEN [url EXCEPT !.path = newPath]
       ELSE [url EXCEPT !.path = url.path \o newPath]

\* the path variables while another specification runs
PathIdle ==
  /\ pIn = <<>>
  /\ ppc = "done"
  /\ pParent = NoURL
  /\ pChild = NoURL
  /\ pArg = <<>>
  /\ pDepth = 0

\* a caller is about to call New with a server URL of some path (empty, or
\* beginning with the slash that ends the host)
PathInit ==
  /\ pIn \in {p \in Paths : p = <<>> \/ p[1] = "/"}
  /\ ppc = "new"
  /\ pParent = NoURL
  /\ pChild = NoURL
  /\ pArg = <<>>
  /\ pDepth = 0

\* client.go:123-199  New
PathNew ==
  /\ ppc = "new"
  /\ ppc' = "ready"
  /\ pParent' = NewURL(pIn)
  /\ UNCHANGED <<pIn, pChild, pArg, pDepth, lifeVars, mapVars, redVars, rateVars,
                 newVars, tokVars, basicVars, digVars, methVars, respVars, treqVars, lockVars, authVars>>

\* client.go:214-231  parent.NewChild(path) on the open client
PathNewChild ==
  /\ ppc = "ready" /\ pDepth < MaxDepth /\ pChild = NoURL
  /\ \E path \in Paths :
       /\ pArg' = path
       /\ pChild' = NewChildURL(pParent, path)
  /\ pDepth' = pDepth + 1
  /\ UNCHANGED <<pIn, ppc, pParent, lifeVars, mapVars, redVars, rateVars,
                 newVars, tokVars, basicVars, digVars, methVars, respVars, treqVars, lockVars, authVars>>

\* the caller goes on with the child: the next NewChild is called on it
PathDescend ==
  /\ ppc = "ready" /\ pChild # NoURL /\ pDepth < MaxDepth
  /\ pParent' = pChild
  /\ pChild' = NoURL
  /\ pArg' = <<>>
  /\ UNCHANGED <<pIn, ppc, pDepth, lifeVars, mapVars, redVars, rateVars,
                 newVars, tokVars, basicVars, digVars, methVars, respVars, treqVars, lockVars, authVars>>

NextPath == PathNew \/ PathNewChild \/ PathDescend

\* ========================================================= Do's method
\* method.go:26-74  the verbs of package methods
RecognizedMethods ==
  {"GET", "HEAD", "POST", "PUT", "DELETE", "CONNECT", "OPTIONS", "TRACE", "PATCH"}

\* the method texts a caller gives to Do: the verbs, the empty text, two
\* tokens that are no verbs, and a text that is no token
MethodTexts == RecognizedMethods \cup {"", "FETCH", "get", "BAD METHOD"}

\* net/http validMethod, called by http.NewRequestWithContext: a non-empty
\* text of token characters
ValidMethodToken(method) == method \notin {"", "BAD METHOD"}

NoDoResult == [resp |-> "nil", err |-> ""]

\* client.go:592-641  what Do does with its arguments on the open client
\* before it sends: the empty method is refused with ErrInvalidMethod;
\* http.NewRequestWithContext refuses a method that is no token, and Do
\* returns that error as it is; the authenticator's Header may fail
DoBuildRequest(method, body, auth) ==
  IF method = "" THEN [built |-> FALSE, err |-> "ErrInvalidMethod"]
  ELSE IF ~ValidMethodToken(method)
  THEN [built |-> FALSE, err |-> "net/http: invalid method"]
  ELSE IF auth = "fails" THEN [built |-> FALSE, err |-> "auth error"]
  ELSE [built |-> TRUE, err |-> ""]

\* the method variables while another specification runs
MethodIdle ==
  /\ mIn = [method |-> "", body |-> "nil", auth |-> "none"]
  /\ mpc = "done"
  /\ mRes = NoDoResult
  /\ mSent = {}

\* a caller is about to call Do on an open client
MethodInit ==
  /\ mIn \in [method : MethodTexts, body : {"nil", "bytes"},
              auth : {"none", "ok", "fails"}]
  /\ mpc = "call"
  /\ mRes = NoDoResult
  /\ mSent = {}

\* client.go:572-641  Do up to the built request
MethodDoBuild ==
  /\ mpc = "call"
  /\ LET r == DoBuildRequest(mIn.method, mIn.body, mIn.auth) IN
       IF r.built
       THEN mpc' = "send" /\ UNCHANGED mRes
       ELSE mpc' = "done" /\ mRes' = [resp |-> "nil", err |-> r.err]
  /\ UNCHANGED <<mIn, mSent, lifeVars, mapVars, redVars, rateVars, newVars,
                 tokVars, basicVars, digVars, pathVars, respVars, treqVars, lockVars, authVars>>

\* client.go:675-741  client.Do(req): the request goes out, and a response
\* or a transport error comes back
MethodDoSend ==
  /\ mpc = "send"
  /\ mpc' = "done"
  /\ mSent' = mSent \cup {mIn.method}
  /\ \E answer \in {"200", "404", "405", "transport error"} :
       mRes' = IF answer = "transport error"
               THEN [resp |-> "nil", err |-> "ErrRequestFailed"]
               ELSE [resp |-> answer, err |-> ""]
  /\ UNCHANGED <<mIn, lifeVars, mapVars, redVars, rateVars, newVars,
                 tokVars, basicVars, digVars, pathVars, respVars, treqVars, lockVars, authVars>>

NextMethod == MethodDoBuild \/ MethodDoSend

\* ======================================================= Do's response
\* StatusCode of the answers tried, on both sides of 400
ResponseStatuses == {200, 399, 400, 500}

\* ContentLength and the bytes of the body: -1 is net/http's "unknown"
ResponseBodies ==
  { [contentLength |-> 0, body |-> <<>>],
    [contentLength |-> 0 - 1, body |-> <<>>],
    [contentLength |-> 0 - 1, body |-> <<"b">>],
    [contentLength |-> 1, body |-> <<"b">>] }

\* uml: nil, or an Unmarshaler whose Unmarshal succeeds or fails
Unmarshalers == {"nil", "ok", "fails"}

NoAnswerIn ==
  [ status |-> 0, contentLength |-> 0, body |-> <<>>, header |-> "",
    readOK |-> TRUE, uml |-> "nil" ]

\* a nil *Response
NilResponse ==
  [ nil |-> TRUE, Success |-> FALSE, StatusCode |-> 0, Header |-> "",
    Body |-> <<>>, BodyUml |-> "nil", ErrorRate |-> NoRate ]

NoDoReturn == [resp |-> NilResponse, err |-> ""]

\* client.go:689  Success: httpRes.StatusCode < 400
ResponseSuccess(status) == status < 400

\* a body of unknown length taken for an empty one
ContentLengthZeroOrUnknown(n) == n <= 0

\* client.go:710  if httpRes.ContentLength == 0
ContentLengthZero(n) == n = 0

\* client.go:688-699  res := &Response{...}, Body and BodyUml not yet set
NewResponse(answer, rate) ==
  [ nil |-> FALSE, Success |-> ResponseSuccess(answer.status),
    StatusCode |-> answer.status, Header |-> answer.header,
    Body |-> <<>>, BodyUml |-> "nil", ErrorRate |-> rate ]

\* client.go:710-740  what Do returns for the response res, and the Unmarshal
\* calls it makes
ReadBody(res, answer) ==
  IF ContentLengthZero(answer.contentLength)
  THEN [resp |-> res, err |-> "", calls |-> <<>>]
  ELSE IF ~answer.readOK
  THEN [resp |-> NilResponse, err |-> "ErrRequestFailed", calls |-> <<>>]
  ELSE IF answer.uml = "nil"
  THEN [resp |-> [res EXCEPT !.Body = answer.body], err |-> "", calls |-> <<>>]
  ELSE LET call == [status |-> res.StatusCode, header |-> res.Header,
                    body |-> answer.body]
       IN IF answer.uml = "fails"
          THEN [resp |-> NilResponse, err |-> "ErrRequestFailed",
                calls |-> <<call>>]
          ELSE [resp |-> [res EXCEPT !.Body = answer.body, !.BodyUml = answer.uml],
                err |-> "", calls |-> <<call>>]

\* the response variables while another specification runs
ResponseIdle ==
  /\ hIn = NoAnswerIn
  /\ hpc = "done"
  /\ hRes = NoDoReturn
  /\ hCalls = <<>>
  /\ hHistory = <<>>
  /\ hMain = <<>>

\* client.go:681-686  client.Do(req) has returned httpRes without an error;
\* c := main.Clone() has an empty ErrorHistory (client.go:267)
ResponseInit ==
  /\ hIn \in [ status : ResponseStatuses, contentLength : {0 - 1, 0, 1},
                body : {<<>>, <<"b">>}, header : {"h"}, readOK : BOOLEAN,
                uml : Unmarshalers ]
  /\ [contentLength |-> hIn.contentLength, body |-> hIn.body] \in ResponseBodies
  /\ hpc = "arrived"
  /\ hRes = NoDoReturn
  /\ hCalls = <<>>
  /\ hHistory = <<>>
  /\ hMain = <<>>

\* client.go:688-699  the response object, ErrorRate being
\* c.calculateErrorRate(httpRes.StatusCode) on the clone
ResponseRecord ==
  /\ hpc = "arrived"
  /\ LET r == calculateErrorRate(hHistory, 0, hIn.status) IN
       /\ hHistory' = r.history
       /\ hRes' = [resp |-> NewResponse(hIn, r.rate), err |-> ""]
  /\ hpc' = "recorded"
  /\ UNCHANGED <<hIn, hCalls, hMain, lifeVars, mapVars, redVars, rateVars, newVars, tokVars, basicVars, digVars, pathVars, methVars, treqVars, lockVars, authVars>>

\* client.go:710-740  the body is read and unmarshaled, or left alone
ResponseBody ==
  /\ hpc = "recorded"
  /\ LET r == ReadBody(hRes.resp, hIn) IN
       /\ hRes' = [resp |-> r.resp, err |-> r.err]
       /\ hCalls' = hCalls \o r.calls
  /\ hpc' = "handled"
  /\ UNCHANGED <<hIn, hHistory, hMain, lifeVars, mapVars, redVars, rateVars, newVars, tokVars, basicVars, digVars, pathVars, methVars, treqVars, lockVars, authVars>>

\* client.go:583-586, 494  the deferred c.Close() sets c.ErrorHistory = nil,
\* and Do returns
ResponseReturn ==
  /\ hpc = "handled"
  /\ hHistory' = <<>>
  /\ hpc' = "done"
  /\ UNCHANGED <<hIn, hRes, hCalls, hMain, lifeVars, mapVars, redVars, rateVars, newVars, tokVars, basicVars, digVars, pathVars, methVars, treqVars, lockVars, authVars>>

NextResponse == ResponseRecord \/ ResponseBody \/ ResponseReturn

\* ==================================================== the token request
\* Config.Scopes: up to two scopes named "r" or "w"
ScopeLists ==
  {<<>>} \cup { <<a>> : a \in {<<114>>, <<119>>} }
         \cup { <<a, b>> : a \in {<<114>>}, b \in {<<114>>, <<119>>} }

\* Config.ClientID and Config.ClientSecret
ClientIDs == {<<97>>, <<97, 58>>}
ClientSecrets == {<<97>>, <<58, 97>>}

\* the user id and password of a Basic authenticator attached to g.http
GatewayUser == <<58>>
GatewayPassword == <<58>>

NoHeaders == [Authorization |-> <<>>, ContentType |-> ""]
NoTokenRequest == [method |-> "", body |-> <<>>, header |-> NoHeaders]

\* client_credentials.go:171  "client_credentials", as bytes
GrantType ==
  <<99, 108, 105, 101, 110, 116, 95, 99, 114, 101, 100, 101, 110, 116, 105, 97, 108, 115>>

\* url.Values.Set: the value of key replaced
ValuesSet(data, key, value) ==
  {e \in data : e.key # key} \cup {[key |-> key, value |-> value]}

\* url.Values.Encode: the entries in the order of their keys
FormKeys == <<"client_id", "client_secret", "grant_type", "scope">>
ValuesEncode(data) ==
  LET present == SelectSeq(FormKeys, LAMBDA k : \E e \in data : e.key = k)
  IN [i \in 1..Len(present) |-> CHOOSE e \in data : e.key = present[i]]

\* client_credentials.go:170-182  data of newToken
TokenForm(in) ==
  LET d1 == ValuesSet({}, "grant_type", GrantType)
      d2 == IF Len(in.scopes) > 0
            THEN ValuesSet(d1, "scope", Join(in.scopes, <<32>>)) ELSE d1
  IN IF in.mode = "ClientInBody"
     THEN ValuesSet(ValuesSet(d2, "client_id", in.id), "client_secret", in.secret)
     ELSE d2

\* client_credentials.go:185-188  the two c.Header.Set calls
TokenHeaders(in) ==
  [ Authorization |-> BasicValuePrefix \o BasicUserPass(in.id, in.secret),
    ContentType |-> "application/x-www-form-urlencoded" ]

\* client.go:620-641  maps.Copy(req.Header, c.Header), then the header of the
\* client's own authenticator set over it
DoRequestHeaders(header, httpAuth) ==
  IF httpAuth = "Basic"
  THEN [header EXCEPT !.Authorization =
          BasicHeader([UserID |-> GatewayUser, Password |-> GatewayPassword],
                      "POST", "", <<>>).value]
  ELSE header

\* the token-request variables while another specification runs
TokenRequestIdle ==
  /\ qIn = [mode |-> "", scopes |-> <<>>, id |-> <<>>, secret |-> <<>>, httpAuth |-> ""]
  /\ qpc = "sent"
  /\ qData = {}
  /\ qHeader = NoHeaders
  /\ qReq = NoTokenRequest

\* client_credentials.go:87-115, 124-135  a ClientCredentials whose token has
\* expired, its http client open, with or without an authenticator of its own
TokenRequestInit ==
  /\ qIn \in [ mode : {"ClientInHeader", "ClientInBody"}, scopes : ScopeLists,
                id : ClientIDs, secret : ClientSecrets, httpAuth : {"none", "Basic"} ]
  /\ qpc = "call"
  /\ qData = {}
  /\ qHeader = NoHeaders
  /\ qReq = NoTokenRequest

\* client_credentials.go:163-188  the child client, the form and the headers
TokenRequestBuild ==
  /\ qpc = "call"
  /\ qData' = TokenForm(qIn)
  /\ qHeader' = TokenHeaders(qIn)
  /\ qpc' = "built"
  /\ UNCHANGED <<qIn, qReq, lifeVars, mapVars, redVars, rateVars, newVars, tokVars, basicVars, digVars, pathVars, methVars, respVars, lockVars, authVars>>

\* client_credentials.go:191  c.Do(POST, []byte(data.Encode()), &tokenResp):
\* the request Do builds and sends (client.go:606-641, 681)
TokenRequestDo ==
  /\ qpc = "built"
  /\ qReq' = [ method |-> "POST", body |-> ValuesEncode(qData),
               header |-> DoRequestHeaders(qHeader, qIn.httpAuth) ]
  /\ qpc' = "sent"
  /\ UNCHANGED <<qIn, qData, qHeader, lifeVars, mapVars, redVars, rateVars, newVars, tokVars, basicVars, digVars, pathVars, methVars, respVars, lockVars, authVars>>

NextTokenRequest == TokenRequestBuild \/ TokenRequestDo

\* ================================================= locks of a client tree
MaxTreeOps == 2      \* top-level calls started, over both caller goroutines
MaxTreeClients == 6  \* client values that can be allocated (H and M included)

TreeClients == 1..MaxTreeClients
\* H, made by New without an authenticator, and M == H.NewChild(...)
TreeRoot == 1
TreeChild == 2
\* the goroutine Close starts for the closer of client k (client.go:500)
TreeGor(k) == NUsers + k
TreeThreads == 1..(NUsers + MaxTreeClients)

\* Client (types file): closed, context/cancel, closer, Mu (its writer and
\* its readers), logger; http is the client of the ClientCredentials attached
\* as Auth, 0 for no authenticator or one whose Clone takes no lock
NoTreeClient ==
  [ alloc |-> FALSE, parent |-> 0, closed |-> FALSE, cancelled |-> FALSE,
    closer |-> {}, muW |-> 0, muR |-> {}, http |-> 0, logger |-> FALSE ]

NoTreeRet == [cl |-> 0, val |-> ""]

RECURSIVE TreeCtxDone(_)
\* context.Err() != nil: the client's cancel was called, or the context its
\* context was derived from is done (client.go:270)
TreeCtxDone(c) ==
  IF c = 0 THEN FALSE
  ELSE kClients[c].cancelled \/ TreeCtxDone(kClients[c].parent)

\* sync.RWMutex: Lock needs no writer and no reader, RLock no writer
TreeCanLock(c) == kClients[c].muW = 0 /\ kClients[c].muR = {}
TreeCanRLock(c) == kClients[c].muW = 0

TreeFree == CHOOSE n \in TreeClients : ~kClients[n].alloc /\
              \A m \in TreeClients : ~kClients[m].alloc => n <= m

TreeFrame(op, c) == [op |-> op, c |-> c, pc |-> "start", x |-> 0]

\* Do begins by calling IsClosed (client.go:576), NewChild by calling Clone
\* (client.go:215)
TreeEnter(op, c) ==
  IF op = "Do"
  THEN <<TreeFrame("IsClosed", c), [TreeFrame(op, c) EXCEPT !.pc = "checked"]>>
  ELSE IF op = "NewChild"
  THEN <<TreeFrame("Clone", c), [TreeFrame(op, c) EXCEPT !.pc = "cloned"]>>
  ELSE <<TreeFrame(op, c)>>

TreeTop(t) == kStack[t][1]
TreeAt(t, op, pc) ==
  /\ kCrashed = "" /\ kStack[t] # <<>>
  /\ TreeTop(t).op = op /\ TreeTop(t).pc = pc
TreeGoto(t, f) == [kStack EXCEPT ![t] = <<f>> \o Tail(kStack[t])]
TreeCall(t, f, op, c) ==
  [kStack EXCEPT ![t] = TreeEnter(op, c) \o <<f>> \o Tail(kStack[t])]
TreeReturn(t, cl, val) ==
  /\ kStack' = [kStack EXCEPT ![t] = Tail(kStack[t])]
  /\ kRet' = [kRet EXCEPT ![t] = [cl |-> cl, val |-> val]]
TreePanic(what) ==
  /\ kCrashed' = what
  /\ UNCHANGED <<kClients, kStack, kRet>>

\* the tree variables while another specification runs
TreeIdle ==
  /\ kClients = [c \in TreeClients |-> NoTreeClient]
  /\ kStack = [t \in TreeThreads |-> <<>>]
  /\ kRet = [t \in TreeThreads |-> NoTreeRet]
  /\ kOps = 0
  /\ kBudget = 0
  /\ kCrashed = ""

\* H := New(...) without an authenticator; M := H.NewChild(...), registered
\* in H.closer (client.go:285-289); M.Auth is nil or a lock-free
\* authenticator, or a ClientCredentials made with H as its http client
\* (client_credentials.go:87-115)
TreeInit ==
  /\ \E http \in {0, TreeRoot} :
       kClients = [c \in TreeClients |->
         IF c = TreeRoot
         THEN [NoTreeClient EXCEPT !.alloc = TRUE, !.logger = TRUE,
                                   !.closer = {TreeChild}]
         ELSE IF c = TreeChild
         THEN [NoTreeClient EXCEPT !.alloc = TRUE, !.logger = TRUE,
                                   !.parent = TreeRoot, !.http = http]
         ELSE NoTreeClient]
  /\ kStack = [t \in TreeThreads |-> <<>>]
  /\ kRet = [t \in TreeThreads |-> NoTreeRet]
  /\ kOps = 0
  /\ kBudget = MaxTreeClients - 2
  /\ kCrashed = ""

\* client values an operation may allocate: the clone, and the child the
\* authenticator's Clone makes of its http client
TreeNeed(op) == IF op \in {"Do", "Clone", "NewChild"} THEN 2 ELSE 0

TreeOps ==
  {"Close", "Clone", "NewChild", "Do", "IsClosed", "FlushHeader", "FlushQuery"}

\* a caller goroutine calls op on H or on M
TreeStart(t, op, c) ==
  /\ kCrashed = "" /\ kStack[t] = <<>> /\ kOps < MaxTreeOps
  /\ kBudget >= TreeNeed(op)
  /\ kBudget' = kBudget - TreeNeed(op)
  /\ kOps' = kOps + 1
  /\ kStack' = [kStack EXCEPT ![t] = TreeEnter(op, c)]
  /\ kRet' = [kRet EXCEPT ![t] = NoTreeRet]
  /\ UNCHANGED <<kClients, kCrashed, lifeVars, mapVars, redVars, rateVars, newVars, tokVars, basicVars, digVars, pathVars, methVars, respVars, treqVars, authVars>>

TreeCalls ==
  \E t \in Users, op \in TreeOps, c \in {TreeRoot, TreeChild} : TreeStart(t, op, c)

\* client.go:240-273  c.Mu.RLock(); nil if closed; else the clone is built,
\* the read lock still held
TreeCloneRLock(t) ==
  /\ TreeAt(t, "Clone", "start")
  /\ LET c == TreeTop(t).c
         x == TreeFree
     IN /\ TreeCanRLock(c)
        /\ IF kClients[c].closed
           THEN /\ TreeReturn(t, 0, "nil")
                /\ UNCHANGED kClients
           ELSE /\ kClients' = [kClients EXCEPT
                       ![c].muR = @ \cup {t},
                       ![x] = [NoTreeClient EXCEPT !.alloc = TRUE, !.parent = c,
                                                   !.logger = kClients[c].logger]]
                /\ kStack' = TreeGoto(t, [TreeTop(t) EXCEPT !.pc = "auth", !.x = x])
                /\ UNCHANGED kRet
  /\ UNCHANGED <<kOps, kBudget, kCrashed, lifeVars, mapVars, redVars, rateVars, newVars, tokVars, basicVars, digVars, pathVars, methVars, respVars, treqVars, authVars>>

\* client.go:277-281  clone.Auth = c.Auth.Clone() under the read lock: a
\* ClientCredentials calls g.http.NewChild("") (client_credentials.go:151);
\* then c.Mu.RUnlock()
TreeCloneAuth(t) ==
  /\ TreeAt(t, "Clone", "auth")
  /\ LET f == TreeTop(t) IN
       IF kClients[f.c].http = 0
       THEN /\ kClients' = [kClients EXCEPT ![f.c].muR = @ \ {t}]
            /\ kStack' = TreeGoto(t, [f EXCEPT !.pc = "register"])
       ELSE /\ kStack' = TreeCall(t, [f EXCEPT !.pc = "authdone"],
                                  "NewChild", kClients[f.c].http)
            /\ UNCHANGED kClients
  /\ UNCHANGED <<kRet, kOps, kBudget, kCrashed, lifeVars, mapVars, redVars, rateVars, newVars, tokVars, basicVars, digVars, pathVars, methVars, respVars, treqVars, authVars>>

\* client_credentials.go:149-157, client.go:281  the authenticator's clone
\* holds the new child; c.Mu.RUnlock()
TreeCloneAuthDone(t) ==
  /\ TreeAt(t, "Clone", "authdone")
  /\ LET f == TreeTop(t) IN
       /\ kClients' = [kClients EXCEPT ![f.c].muR = @ \ {t},
                                       ![f.x].http = kRet[t].cl]
       /\ kStack' = TreeGoto(t, [f EXCEPT !.pc = "register"])
  /\ UNCHANGED <<kRet, kOps, kBudget, kCrashed, lifeVars, mapVars, redVars, rateVars, newVars, tokVars, basicVars, digVars, pathVars, methVars, respVars, treqVars, authVars>>

\* client.go:285-289  c.Mu.Lock(); append clone.Close to c.closer
TreeCloneRegister(t) ==
  /\ TreeAt(t, "Clone", "register")
  /\ LET f == TreeTop(t) IN
       /\ TreeCanLock(f.c)
       /\ kClients' = [kClients EXCEPT ![f.c].closer = @ \cup {f.x}]
       /\ TreeReturn(t, f.x, "clone")
  /\ UNCHANGED <<kOps, kBudget, kCrashed, lifeVars, mapVars, redVars, rateVars, newVars, tokVars, basicVars, digVars, pathVars, methVars, respVars, treqVars, authVars>>

\* client.go:215-230  child.URL and c.logger used without a check
TreeNewChild(t) ==
  /\ TreeAt(t, "NewChild", "cloned")
  /\ IF kRet[t].cl = 0
     THEN TreePanic("NewChild: nil clone")
     ELSE IF ~kClients[TreeTop(t).c].logger
     THEN TreePanic("NewChild: nil logger")
     ELSE /\ TreeReturn(t, kRet[t].cl, "child")
          /\ UNCHANGED <<kClients, kCrashed>>
  /\ UNCHANGED <<kOps, kBudget, lifeVars, mapVars, redVars, rateVars, newVars, tokVars, basicVars, digVars, pathVars, methVars, respVars, treqVars, authVars>>

\* client.go:439-479  under the lock: a closed client cancels and returns,
\* an open one is marked; the drain wait that follows is bounded
TreeCloseMark(t) ==
  /\ TreeAt(t, "Close", "start")
  /\ LET c == TreeTop(t).c IN
       /\ TreeCanLock(c)
       /\ IF kClients[c].closed
          THEN /\ kClients' = [kClients EXCEPT ![c].cancelled = TRUE]
               /\ TreeReturn(t, 0, "again")
          ELSE /\ kClients' = [kClients EXCEPT ![c].closed = TRUE]
               /\ kStack' = TreeGoto(t, [TreeTop(t) EXCEPT !.pc = "cleanup"])
               /\ UNCHANGED kRet
  /\ UNCHANGED <<kOps, kBudget, kCrashed, lifeVars, mapVars, redVars, rateVars, newVars, tokVars, basicVars, digVars, pathVars, methVars, respVars, treqVars, authVars>>

\* client.go:482-510  c.Mu.Lock(), kept until return; cancel; Auth = nil; one
\* goroutine per closer
TreeCloseCleanup(t) ==
  /\ TreeAt(t, "Close", "cleanup")
  /\ LET c == TreeTop(t).c
         kids == kClients[c].closer
     IN /\ TreeCanLock(c)
        /\ kClients' = [kClients EXCEPT ![c].muW = t, ![c].cancelled = TRUE,
                                        ![c].http = 0]
        /\ kStack' = [u \in TreeThreads |->
                        IF u = t
                        THEN <<[TreeTop(t) EXCEPT !.pc = "wait"]>> \o Tail(kStack[t])
                        ELSE IF \E k \in kids : u = TreeGor(k)
                        THEN TreeEnter("Close", u - NUsers)
                        ELSE kStack[u]]
  /\ UNCHANGED <<kRet, kOps, kBudget, kCrashed, lifeVars, mapVars, redVars, rateVars, newVars, tokVars, basicVars, digVars, pathVars, methVars, respVars, treqVars, authVars>>

\* client.go:511-516  wg.Wait(); closer = nil; logger = nil; the deferred
\* c.Mu.Unlock()
TreeCloseFinish(t) ==
  /\ TreeAt(t, "Close", "wait")
  /\ LET c == TreeTop(t).c IN
       /\ \A k \in kClients[c].closer : kStack[TreeGor(k)] = <<>>
       /\ kClients' = [kClients EXCEPT ![c].closer = {}, ![c].logger = FALSE,
                                       ![c].muW = 0]
       /\ TreeReturn(t, 0, "first")
  /\ UNCHANGED <<kOps, kBudget, kCrashed, lifeVars, mapVars, redVars, rateVars, newVars, tokVars, basicVars, digVars, pathVars, methVars, respVars, treqVars, authVars>>

\* client.go:747-767  under the read lock: the context first, then the flag
TreeIsClosedCheck(t) ==
  /\ TreeAt(t, "IsClosed", "start")
  /\ LET f == TreeTop(t) IN
       /\ TreeCanRLock(f.c)
       /\ IF TreeCtxDone(f.c)
          THEN /\ kStack' = TreeGoto(t, [f EXCEPT !.pc = "ctxdone"])
               /\ UNCHANGED kRet
          ELSE IF kClients[f.c].closed
          THEN /\ kStack' = TreeCall(t, [f EXCEPT !.pc = "done"], "Close", f.c)
               /\ UNCHANGED kRet
          ELSE TreeReturn(t, 0, "false")
  /\ UNCHANGED <<kClients, kOps, kBudget, kCrashed, lifeVars, mapVars, redVars, rateVars, newVars, tokVars, basicVars, digVars, pathVars, methVars, respVars, treqVars, authVars>>

\* client.go:752-756  after RUnlock: Close() if the flag is not set; true
TreeIsClosedCtx(t) ==
  /\ TreeAt(t, "IsClosed", "ctxdone")
  /\ LET f == TreeTop(t) IN
       IF ~kClients[f.c].closed
       THEN /\ kStack' = TreeCall(t, [f EXCEPT !.pc = "done"], "Close", f.c)
            /\ UNCHANGED kRet
       ELSE TreeReturn(t, 0, "true")
  /\ UNCHANGED <<kClients, kOps, kBudget, kCrashed, lifeVars, mapVars, redVars, rateVars, newVars, tokVars, basicVars, digVars, pathVars, methVars, respVars, treqVars, authVars>>

\* client.go:756, 763  return true once the inner Close is back
TreeIsClosedDone(t) ==
  /\ TreeAt(t, "IsClosed", "done")
  /\ TreeReturn(t, 0, "true")
  /\ UNCHANGED <<kClients, kOps, kBudget, kCrashed, lifeVars, mapVars, redVars, rateVars, newVars, tokVars, basicVars, digVars, pathVars, methVars, respVars, treqVars, authVars>>

\* client.go:576-582  refuse a closed client, else c := main.Clone()
TreeDoChecked(t) ==
  /\ TreeAt(t, "Do", "checked")
  /\ LET f == TreeTop(t) IN
       IF kRet[t].val = "true"
       THEN TreeReturn(t, 0, "ErrClientClosed")
       ELSE /\ kStack' = TreeCall(t, [f EXCEPT !.pc = "cloned"], "Clone", f.c)
            /\ UNCHANGED kRet
  /\ UNCHANGED <<kClients, kOps, kBudget, kCrashed, lifeVars, mapVars, redVars, rateVars, newVars, tokVars, basicVars, digVars, pathVars, methVars, respVars, treqVars, authVars>>

\* client.go:583-684  the request on the clone, unchecked: the call ends
\* before an answer, with the deferred c.Close(), or an answer comes
TreeDoRequest(t) ==
  /\ TreeAt(t, "Do", "cloned")
  /\ LET f == TreeTop(t)
         x == kRet[t].cl
     IN IF x = 0
        THEN TreePanic("Do: nil clone")
        ELSE IF ~kClients[x].logger
        THEN TreePanic("Do: nil logger")
        ELSE /\ \E answered \in BOOLEAN :
                  kStack' = IF answered
                            THEN TreeGoto(t, [f EXCEPT !.pc = "rate", !.x = x])
                            ELSE TreeCall(t, [f EXCEPT !.pc = "closed", !.x = x],
                                          "Close", x)
             /\ UNCHANGED <<kClients, kRet, kCrashed>>
  /\ UNCHANGED <<kOps, kBudget, lifeVars, mapVars, redVars, rateVars, newVars, tokVars, basicVars, digVars, pathVars, methVars, respVars, treqVars, authVars>>

\* client.go:698-740, 331  calculateErrorRate takes the clone's lock; the
\* log lines through c.logger; then the deferred c.Close()
TreeDoRate(t) ==
  /\ TreeAt(t, "Do", "rate")
  /\ LET f == TreeTop(t) IN
       /\ TreeCanLock(f.x)
       /\ IF ~kClients[f.x].logger
          THEN TreePanic("Do: nil logger")
          ELSE /\ kStack' = TreeCall(t, [f EXCEPT !.pc = "closed"], "Close", f.x)
               /\ UNCHANGED <<kClients, kRet, kCrashed>>
  /\ UNCHANGED <<kOps, kBudget, lifeVars, mapVars, redVars, rateVars, newVars, tokVars, basicVars, digVars, pathVars, methVars, respVars, treqVars, authVars>>

\* Do returns
TreeDoReturn(t) ==
  /\ TreeAt(t, "Do", "closed")
  /\ TreeReturn(t, 0, "done")
  /\ UNCHANGED <<kClients, kOps, kBudget, kCrashed, lifeVars, mapVars, redVars, rateVars, newVars, tokVars, basicVars, digVars, pathVars, methVars, respVars, treqVars, authVars>>

\* client.go:300-308  c.logger.Debug, then c.Mu.Lock(); c.Header = ...
TreeFlushHeader(t) ==
  /\ TreeAt(t, "FlushHeader", "start")
  /\ IF ~kClients[TreeTop(t).c].logger
     THEN TreePanic("FlushHeader: nil logger")
     ELSE /\ TreeCanLock(TreeTop(t).c)
          /\ TreeReturn(t, TreeTop(t).c, "flushed")
          /\ UNCHANGED <<kClients, kCrashed>>
  /\ UNCHANGED <<kOps, kBudget, lifeVars, mapVars, redVars, rateVars, newVars, tokVars, basicVars, digVars, pathVars, methVars, respVars, treqVars, authVars>>

\* client.go:318-326  c.logger.Debug, then c.Mu.Lock(); c.Query = ...
TreeFlushQuery(t) ==
  /\ TreeAt(t, "FlushQuery", "start")
  /\ IF ~kClients[TreeTop(t).c].logger
     THEN TreePanic("FlushQuery: nil logger")
     ELSE /\ TreeCanLock(TreeTop(t).c)
          /\ TreeReturn(t, TreeTop(t).c, "flushed")
          /\ UNCHANGED <<kClients, kCrashed>>
  /\ UNCHANGED <<kOps, kBudget, lifeVars, mapVars, redVars, rateVars, newVars, tokVars, basicVars, digVars, pathVars, methVars, respVars, treqVars, authVars>>

\* a step of one of the operations under way
TreeSteps ==
  \E t \in TreeThreads :
    \/ TreeCloneRLock(t) \/ TreeCloneAuth(t) \/ TreeCloneAuthDone(t)
    \/ TreeCloneRegister(t) \/ TreeNewChild(t)
    \/ TreeCloseMark(t) \/ TreeCloseCleanup(t) \/ TreeCloseFinish(t)
    \/ TreeIsClosedCheck(t) \/ TreeIsClosedCtx(t) \/ TreeIsClosedDone(t)
    \/ TreeDoChecked(t) \/ TreeDoRequest(t) \/ TreeDoRate(t) \/ TreeDoReturn(t)
    \/ TreeFlushHeader(t) \/ TreeFlushQuery(t)

NextTree == TreeCalls \/ TreeSteps

\* ================================================ Do's authenticator
MaxAuthTime == 2     \* largest clock value and token expiry tried

\* the authenticators tried: none, Basic (Digest is as stateless), a
\* ClientCredentials, and one of the caller's whose Header counts its uses
\* and may fail
AuthKinds == {"nil", "Basic", "ClientCredentials", "custom"}

NilAuth == [kind |-> "nil", token |-> "", expireAt |-> 0, uses |-> 0]

\* the address of main.Auth and the one Clone gives to the clone's
MainAuth == 1
CloneAuth == 2

\* part_013:91, part_012:327-333, client_credentials.go:148-158  Clone: a
\* new value with the fields of the receiver, the cached token included
AuthClone(a) == [kind |-> a.kind, token |-> a.token, expireAt |-> a.expireAt,
                 uses |-> a.uses]

\* Header of each authenticator: the value, the error, and the receiver as
\* the call leaves it (part_013:83-87; client_credentials.go:139-144, the
\* token as it is, whatever ExpireAt)
AuthHeader(a, ok) ==
  IF a.kind = "Basic"
  THEN [value |-> <<"Basic ", "credentials">>, err |-> "", auth |-> a]
  ELSE IF a.kind = "ClientCredentials"
  THEN [value |-> <<"Bearer ", a.token>>, err |-> "", auth |-> a]
  ELSE IF ok
  THEN [value |-> <<"Custom ", "value">>, err |-> "",
        auth |-> [a EXCEPT !.uses = @ + 1]]
  ELSE [value |-> <<>>, err |-> "ErrAuth", auth |-> [a EXCEPT !.uses = @ + 1]]

\* the authenticator of the original client asked for the header
AuthOfMain(main, c) == main

\* client.go:633-636  c.Auth.Header(...): the authenticator of the clone c
AuthOfCall(main, c) == c

\* the authenticator variables while another specification runs
AuthIdle ==
  /\ aIn = [auth |-> NilAuth, now |-> 0, headerOK |-> TRUE]
  /\ aHeap = <<NilAuth, NilAuth>>
  /\ apc = "done"
  /\ aCalls = <<>>
  /\ aHeader = <<>>
  /\ aSent = <<>>
  /\ aRes = ""

\* Do is called on an open client main whose Auth is nil or an authenticator,
\* a ClientCredentials with a token never fetched, valid or expired
AuthInit ==
  /\ aIn \in [ auth : [kind : AuthKinds, token : {"", "A"},
                       expireAt : 0..MaxAuthTime, uses : {0}],
               now : 0..MaxAuthTime, headerOK : BOOLEAN ]
  /\ aIn.auth.kind # "ClientCredentials" =>
       aIn.auth.token = "" /\ aIn.auth.expireAt = 0 /\ aIn.now = 0
  /\ aIn.auth.kind # "custom" => aIn.headerOK
  /\ aHeap = <<aIn.auth, NilAuth>>
  /\ apc = "call"
  /\ aCalls = <<>>
  /\ aHeader = <<>>
  /\ aSent = <<>>
  /\ aRes = ""

\* client.go:582, 277-279  c := main.Clone(): clone.Auth = c.Auth.Clone()
\* when main has an authenticator
AuthDoClone ==
  /\ apc = "call"
  /\ IF aHeap[MainAuth].kind = "nil"
     THEN UNCHANGED <<aHeap, aCalls>>
     ELSE /\ aHeap' = [aHeap EXCEPT ![CloneAuth] = AuthClone(aHeap[MainAuth])]
          /\ aCalls' = Append(aCalls, [fn |-> "Clone", on |-> MainAuth])
  /\ apc' = "cloned"
  /\ UNCHANGED <<aIn, aHeader, aSent, aRes, lifeVars, mapVars, redVars, rateVars, newVars, tokVars, basicVars, digVars, pathVars, methVars, respVars, treqVars, lockVars>>

\* client.go:630-641  if c.Auth != nil: Header, its error returned, else
\* req.Header.Set(name, value)
AuthDoHeader ==
  /\ apc = "cloned"
  /\ LET at == AuthOfCall(MainAuth, CloneAuth) IN
       IF aHeap[CloneAuth].kind = "nil"
       THEN /\ apc' = "send"
            /\ UNCHANGED <<aHeap, aCalls, aHeader, aRes>>
       ELSE LET h == AuthHeader(aHeap[at], aIn.headerOK) IN
              /\ aHeap' = [aHeap EXCEPT ![at] = h.auth]
              /\ aCalls' = Append(aCalls, [fn |-> "Header", on |-> at])
              /\ aRes' = h.err
              /\ apc' = IF h.err = "" THEN "send" ELSE "done"
              /\ aHeader' = h.value
  /\ UNCHANGED <<aIn, aSent, lifeVars, mapVars, redVars, rateVars, newVars, tokVars, basicVars, digVars, pathVars, methVars, respVars, treqVars, lockVars>>

\* client.go:674-741  the request goes out with the header it was given, or
\* the rate limiter or the transport fails
AuthDoSend ==
  /\ apc = "send"
  /\ \E sent \in BOOLEAN :
       /\ aRes' = IF sent THEN "" ELSE "ErrTransport"
       /\ aSent' = IF sent THEN Append(aSent, aHeader) ELSE aSent
  /\ apc' = "done"
  /\ UNCHANGED <<aIn, aHeap, aCalls, aHeader, lifeVars, mapVars, redVars, rateVars, newVars, tokVars, basicVars, digVars, pathVars, methVars, respVars, treqVars, lockVars>>

NextAuth == AuthDoClone \/ AuthDoHeader \/ AuthDoSend

\* ========================================================= specifications
InitMaps == MapsInit /\ LifeIdle /\ RedirectIdle /\ RateIdle /\ NewIdle /\ TokenIdle /\ BasicIdle /\ DigestIdle /\ PathIdle /\ MethodIdle /\ ResponseIdle /\ TokenRequestIdle /\ TreeIdle /\ AuthIdle

InitRedirect == RedirectInit /\ LifeIdle /\ MapsIdle /\ RateIdle /\ NewIdle /\ TokenIdle /\ BasicIdle /\ DigestIdle /\ PathIdle /\ MethodIdle /\ ResponseIdle /\ TokenRequestIdle /\ TreeIdle /\ AuthIdle

InitRate == RateInit /\ LifeIdle /\ MapsIdle /\ RedirectIdle /\ NewIdle /\ TokenIdle /\ BasicIdle /\ DigestIdle /\ PathIdle /\ MethodIdle /\ ResponseIdle /\ TokenRequestIdle /\ TreeIdle /\ AuthIdle

InitNew == NewInit /\ LifeIdle /\ MapsIdle /\ RedirectIdle /\ RateIdle /\ TokenIdle /\ BasicIdle /\ DigestIdle /\ PathIdle /\ MethodIdle /\ ResponseIdle /\ TokenRequestIdle /\ TreeIdle /\ AuthIdle

InitToken == TokenInit /\ LifeIdle /\ MapsIdle /\ RedirectIdle /\ RateIdle /\ NewIdle /\ BasicIdle /\ DigestIdle /\ PathIdle /\ MethodIdle /\ ResponseIdle /\ TokenRequestIdle /\ TreeIdle /\ AuthIdle

InitBasic == BasicInit /\ LifeIdle /\ MapsIdle /\ RedirectIdle /\ RateIdle /\ NewIdle /\ TokenIdle /\ DigestIdle /\ PathIdle /\ MethodIdle /\ ResponseIdle /\ TokenRequestIdle /\ TreeIdle /\ AuthIdle

InitDigest == DigestInit /\ LifeIdle /\ MapsIdle /\ RedirectIdle /\ RateIdle /\ NewIdle /\ TokenIdle /\ BasicIdle /\ PathIdle /\ MethodIdle /\ ResponseIdle /\ TokenRequestIdle /\ TreeIdle /\ AuthIdle

InitDigestClone == DigestCloneInit /\ LifeIdle /\ MapsIdle /\ RedirectIdle /\ RateIdle /\ NewIdle /\ TokenIdle /\ BasicIdle /\ PathIdle /\ MethodIdle /\ ResponseIdle /\ TokenRequestIdle /\ TreeIdle /\ AuthIdle

InitPath == PathInit /\ LifeIdle /\ MapsIdle /\ RedirectIdle /\ RateIdle /\ NewIdle /\ TokenIdle /\ BasicIdle /\ DigestIdle /\ MethodIdle /\ ResponseIdle /\ TokenRequestIdle /\ TreeIdle /\ AuthIdle

InitMethod == MethodInit /\ LifeIdle /\ MapsIdle /\ RedirectIdle /\ RateIdle /\ NewIdle /\ TokenIdle /\ BasicIdle /\ DigestIdle /\ PathIdle /\ ResponseIdle /\ TokenRequestIdle /\ TreeIdle /\ AuthIdle

InitResponse == ResponseInit /\ LifeIdle /\ MapsIdle /\ RedirectIdle /\ RateIdle /\ NewIdle /\ TokenIdle /\ BasicIdle /\ DigestIdle /\ PathIdle /\ MethodIdle /\ TokenRequestIdle /\ TreeIdle /\ AuthIdle

InitTokenRequest == TokenRequestInit /\ LifeIdle /\ MapsIdle /\ RedirectIdle /\ RateIdle /\ NewIdle /\ TokenIdle /\ BasicIdle /\ DigestIdle /\ PathIdle /\ MethodIdle /\ ResponseIdle /\ TreeIdle /\ AuthIdle

InitTree == TreeInit /\ LifeIdle /\ MapsIdle /\ RedirectIdle /\ RateIdle /\ NewIdle /\ TokenIdle /\ BasicIdle /\ DigestIdle /\ PathIdle /\ MethodIdle /\ ResponseIdle /\ TokenRequestIdle /\ AuthIdle

InitAuth == AuthInit /\ LifeIdle /\ MapsIdle /\ RedirectIdle /\ RateIdle /\ NewIdle /\ TokenIdle /\ BasicIdle /\ DigestIdle /\ PathIdle /\ MethodIdle /\ ResponseIdle /\ TokenRequestIdle /\ TreeIdle

Init ==
  /\ clients = [c \in Clients |-> IF c = Root THEN NewClient ELSE NoClient]
  /\ extCancel = FALSE
  /\ stack = [t \in Threads |-> <<>>]
  /\ ret = [t \in Threads |-> NoRet]
  /\ ops = 0
  /\ visible = {Root}
  /\ budget = MaxClients - 1
  /\ crashed = ""
  /\ hasAuth = TRUE
  /\ hasLimiter = TRUE
  /\ MapsIdle
  /\ RedirectIdle
  /\ RateIdle
  /\ NewIdle
  /\ TokenIdle
  /\ BasicIdle
  /\ DigestIdle
  /\ PathIdle
  /\ MethodIdle
  /\ ResponseIdle
  /\ TokenRequestIdle
  /\ TreeIdle
  /\ AuthIdle

Next ==
  \/ \E t \in Users :
       \/ CallDo(t) \/ CallDoWithMarshal(t) \/ CallClone(t)
       \/ CallNewChild(t) \/ CallClose(t) \/ CallIsClosed(t)
  \/ \E t \in Threads :
       \/ CloseMark(t) \/ CloseDrained(t) \/ CloseTimedOut(t)
       \/ CloseCleanup(t) \/ CloseFinish(t)
       \/ IsClosedCheck(t) \/ IsClosedCtx(t) \/ IsClosedDone(t)
       \/ CloneCopy(t) \/ CloneRegister(t) \/ NewChildPath(t)
       \/ DoChecked(t) \/ DoCount(t) \/ DoBuild(t) \/ DoWait(t) \/ DoSend(t)
       \/ DoRespond(t) \/ DoDefer(t) \/ DoReturn(t)
       \/ MarshalChecked(t) \/ MarshalCloned(t) \/ MarshalDone(t)
  \/ CancelContext

vars == <<lifeVars, mapVars, redVars, rateVars, newVars, tokVars, basicVars, digVars, pathVars, methVars, respVars, treqVars, lockVars, authVars>>

Spec == Init /\ [][Next]_vars

SpecMaps == InitMaps /\ [][NextMaps]_vars

SpecRedirect == InitRedirect /\ [][NextRedirect]_vars

SpecRate == InitRate /\ [][NextRate]_vars

SpecNew == InitNew /\ [][NextNew]_vars

SpecToken == InitToken /\ [][NextToken]_vars

SpecBasic == InitBasic /\ [][NextBasic]_vars

SpecDigest == InitDigest /\ [][NextDigest]_vars

SpecDigestClone == InitDigestClone /\ [][NextDigestClone]_vars

SpecPath == InitPath /\ [][NextPath]_vars

SpecMethod == InitMethod /\ [][NextMethod]_vars

SpecResponse == InitResponse /\ [][NextResponse]_vars

SpecTokenRequest == InitTokenRequest /\ [][NextTokenRequest]_vars

SpecTree == InitTree /\ [][NextTree]_vars

SpecAuth == InitAuth /\ [][NextAuth]_vars

\* ============================================================ properties
Frames(t) == {stack[t][i] : i \in 1..Len(stack[t])}

\* C1: a Do called on a client whose Close has returned never gets past the
\* closed check (so it neither counts itself on the client nor calls the
\* authenticator, the rate limiter or the transport) and returns
\* ErrClientClosed.
C1_DoOnClosedClient ==
  \A t \in Users :
    /\ \A f \in Frames(t) :
         f.op = "Do" /\ f.after = 2 => f.pc = "checked" /\ f.did = {}
    /\ ret[t].op = "Do" /\ ret[t].after = 2 =>
         ret[t].val = "ErrClientClosed" /\ ret[t].did = {}

C1_Witness ==
  \E t \in Users :
    ret[t].op = "Do" /\ ret[t].after = 2 /\ ret[t].val = "ErrClientClosed"

\* C2: no Do counts itself on a client, and no Do sends, once the closed flag
\* of that client is set.
C2_NoStartAfterClosed ==
  [][ \A t \in Users :
        /\ At(t, "Do", "cloned") /\ stack'[t] # stack[t]
             => ~clients[Top(t).c].closed
        /\ At(t, "Do", "send") /\ stack'[t] # stack[t]
             /\ "send" \in stack'[t][1].did
             => ~clients[Top(t).c].closed ]_vars

\* C3: whenever a Close of a client has returned, first or later, sequential
\* or concurrent, the client is marked closed and its context is cancelled,
\* and no Close panics.
C3_CloseIdempotent ==
  /\ crashed # "Close: nil logger"
  /\ \A c \in Clients :
       clients[c].closeReturned => clients[c].closed /\ clients[c].cancelled

\* a second Close has returned while the first one is still waiting
C3_Witness ==
  \E t \in Users, u \in Threads :
    /\ ret[t].op = "Close" /\ ret[t].val = "again"
    /\ stack[u] # <<>> /\ Top(u).op = "Close" /\ Top(u).c = ret[t].c
    /\ Top(u).pc = "drain"

\* C4: once a Close of a client has returned, every client cloned from it,
\* directly or through clones, is closed for its users: its context is done
\* or its flag is set, IsClosed called on it from then on returns true and Do
\* returns ErrClientClosed.
C4_CloseCascades ==
  /\ \A p \in Clients, c \in Clients :
       clients[c].alloc /\ p \in Ancestors(c) /\ clients[p].closeReturned
         => CtxDone(c) \/ clients[c].closed
  /\ \A t \in Users :
       /\ ret[t].op = "IsClosed" /\ ret[t].after >= 1 => ret[t].val = "true"
       /\ ret[t].op = "Do" /\ ret[t].after >= 1 => ret[t].val = "ErrClientClosed"

\* IsClosed said true on a clone that was registered with its parent only
\* after the parent's Close had emptied the closer list
C4_Witness ==
  \E t \in Users :
    /\ ret[t].op = "IsClosed" /\ ret[t].val = "true" /\ ret[t].after = 1
    /\ LET c == ret[t].c IN
         /\ clients[clients[c].parent].closeReturned
         /\ c \in Range(clients[clients[c].parent].closer)

\* C5: the closed flag never goes back to false, and the shutdown body of a
\* client (drain wait, release, fan-out) is entered only by the call that
\* switches the flag, hence at most once.
C5_ClosedOnce ==
  [][ \A c \in Clients :
        /\ clients[c].closed => clients'[c].closed
        /\ clients'[c].shutdowns # clients[c].shutdowns =>
             /\ ~clients[c].closed /\ clients'[c].closed
             /\ clients[c].shutdowns = 0 /\ clients'[c].shutdowns = 1 ]_vars

\* the Close called by IsClosed came back by the already-closed path while
\* the shutdown body had been entered by another call
C5_Witness ==
  \E t \in Users :
    /\ stack[t] # <<>> /\ Top(t).op = "IsClosed" /\ Top(t).pc = "done"
    /\ ret[t].op = "Close" /\ ret[t].val = "again"
    /\ clients[Top(t).c].shutdowns = 1

C7_ClosedCloneChecked ==
  crashed \notin {"Do: nil clone", "DoWithMarshal: nil clone",
                  "NewChild: nil clone"}


\* C8: the clone's header and query maps equal the source's when Clone
\* returns, and from then on no change made through one client's maps is seen
\* through the other's.
C8_CloneMapsIndependent ==
  [][ /\ ~cloned /\ cloned' =>
           /\ View("clone", "Header")' = View("src", "Header")'
           /\ View("clone", "Query")' = View("src", "Query")'
      /\ cloned /\ last' = "clone" /\ mops' # mops =>
           /\ View("src", "Header")' = View("src", "Header")
           /\ View("src", "Query")' = View("src", "Query")
      /\ cloned /\ last' = "src" /\ mops' # mops =>
           /\ View("clone", "Header")' = View("clone", "Header")
           /\ View("clone", "Query")' = View("clone", "Query") ]_vars


\* the redirect hops followed so far: the requests sent after the first one
HopsFollowed == IF rVia = <<>> THEN 0 ELSE Len(rVia) - 1

\* the call was given a non-nil trace, follows redirects, and met neither a
\* transport nor a rate-limiter failure
RedirectsDecide ==
  /\ rpc = "done" /\ rOpt.Follow /\ ~rOpt.traceNil
  /\ rResult \notin {"ErrTransport", "ErrLimiter"}

\* C9 as stated: with MaxRedirect = N a chain of N+1 hops ends with
\* ErrTooManyRedirects, the trace holding exactly N entries at that moment.
C9_TraceLengthIsN ==
  /\ RedirectsDecide /\ rOpt.hops = rOpt.MaxRedirect + 1
       => rResult = "ErrTooManyRedirects"
  /\ rResult = "ErrTooManyRedirects" => Len(rTrace) = rOpt.MaxRedirect

\* C9 amended: with MaxRedirect = N a chain of N+1 hops ends with
\* ErrTooManyRedirects, the trace holding N entries at that moment when
\* N >= 1 and one entry when N = 0 (the rejected hop is always recorded).
C9_TraceLengthAtFailure ==
  /\ RedirectsDecide /\ rOpt.hops = rOpt.MaxRedirect + 1
       => rResult = "ErrTooManyRedirects"
  /\ rResult = "ErrTooManyRedirects" =>
       Len(rTrace) = IF rOpt.MaxRedirect = 0 THEN 1 ELSE rOpt.MaxRedirect

C9_Witness ==
  /\ rResult = "ErrTooManyRedirects"
  /\ rOpt.MaxRedirect = 2 /\ rOpt.hops = 3 /\ Len(rTrace) = 2

\* C10: with MaxRedirect = N a hop is rejected exactly when N hops have been
\* followed before it: the rejection comes after N followed hops, and no more
\* than N hops are ever followed.
C10_RejectedAfterNHops ==
  /\ rResult = "ErrTooManyRedirects" => HopsFollowed = rOpt.MaxRedirect
  /\ HopsFollowed <= rOpt.MaxRedirect

\* C11: whenever the redirect policy has gone past its Follow and trace tests
\* on a hop, the request leaves it without an Authorization header if
\* FollowAuth is off and the target host is not the client's, and with its
\* Authorization header as it came (present or absent) if the target host is
\* the client's or FollowAuth is on.
C11_AuthOnRedirect ==
  [][ \/ rpc # "check"
      \/ rResult' \in {"last response", "ErrNoTrace"}
      \/ rReq'.auth = IF ~rOpt.FollowAuth /\ rReq.host # "client"
                      THEN FALSE ELSE rReq.auth ]_vars

\* the policy let a hop to another host go, stripped of the Authorization
\* header the redirected request carried
C11_Witness ==
  /\ rpc = "send" /\ Len(rVia) = 1
  /\ rOpt.authHeader /\ ~rOpt.FollowAuth
  /\ rReq.host = "other" /\ ~rReq.auth

\* the outcomes of log that are not older than a minute at time now
NotOlder(log, now) == SelectSeq(log, LAMBDA e : now - e.ts <= Minute)

\* C12: every calculateErrorRate call returns errors / total (times 100) over
\* the outcomes not older than 60 seconds, the current one included, and
\* leaves exactly these outcomes in the history: older ones are dropped,
\* those of age up to 60 seconds are kept and counted.
C12_ErrorRateWindow ==
  [][ Len(eLog') = Len(eLog) + 1 =>
        /\ eHist' = NotOlder(eLog', eNow)
        /\ eRate' = [errors |-> ErrorCount(NotOlder(eLog', eNow)),
                     total |-> Len(NotOlder(eLog', eNow))] ]_vars

\* C13: every Do completed on M appends one entry to M's own ErrorHistory,
\* and the ErrorRate it returns is computed over all the outcomes completed on
\* M in the last 60 seconds.
C13_HistoryOnOriginal ==
  [][ Len(dDone') = Len(dDone) + 1 =>
        /\ Len(dHist') = Len(dHist) + 1
        /\ dRate' = [errors |-> ErrorCount(NotOlder(dDone', eNow)),
                     total |-> Len(NotOlder(dDone', eNow))] ]_vars

\* the Do calls on client c whose frame is at one of the places pcs
DoCalls(c, pcs) ==
  UNION { { <<t, i>> : i \in { j \in 1..Len(stack[t]) :
                             /\ stack[t][j].op = "Do" /\ stack[t][j].c = c
                             /\ stack[t][j].pc \in pcs } } : t \in Threads }

\* between the increment and the deferred decrement
DoCounted == {"body", "wait", "send", "respond", "defer"}

\* past the closed check and not yet returned
DoPassed == {"cloned", "closed"} \cup DoCounted

\* C14 as stated: in every state the counter of a client is the number of Do
\* calls on it that have passed the closed check and not yet returned.
C14_CounterIsCallsPastCheck ==
  \A c \in Clients :
    crashed = "" => clients[c].activeRequests = Cardinality(DoCalls(c, DoPassed))

\* C14 amended: in every state of a running program the counter of a client
\* is the number of Do calls on it that have executed the increment and not
\* yet their deferred decrement, whatever the exit path; it is never
\* negative and never above the number of Do calls past the closed check and
\* not yet returned.
C14_CounterIsCallsCounted ==
  \A c \in Clients :
    /\ clients[c].activeRequests >= 0
    /\ crashed = "" =>
         /\ clients[c].activeRequests = Cardinality(DoCalls(c, DoCounted))
         /\ clients[c].activeRequests <= Cardinality(DoCalls(c, DoPassed))

\* a Do on the first client has come back through an error path while
\* another Do on it is still counted
C14_Witness ==
  /\ crashed = ""
  /\ clients[Root].activeRequests = 1
  /\ \E t \in Users :
       ret[t].op = "Do" /\ ret[t].c = Root /\ ret[t].val = "ErrTransport"

\* a Close of client c is in its drain wait: flag set, drain not yet ended
Draining(c) ==
  \E t \in Threads : \E i \in 1..Len(stack[t]) :
    stack[t][i].op = "Close" /\ stack[t][i].c = c /\ stack[t][i].pc = "drain"

\* C15: the cancel function of a client is never called while the first Close
\* of that client is in its drain wait, whatever else is called on the client
\* meanwhile: cancellation comes only after the drain wait has ended.
C15_CancelAfterDrain ==
  [][ \A c \in Clients :
        ~clients[c].cancelled /\ clients'[c].cancelled => ~Draining(c) ]_vars

\* a Close has been called and has not returned
ClosePending ==
  \E t \in Threads : \E i \in 1..Len(stack[t]) : stack[t][i].op = "Close"

\* C16: a Close that has been called never gets stuck before it returns: as
\* long as one is pending the program can take a step (calls are finite, so
\* every Close returns), requests still counted at the deadline included.
C16_CloseTerminates == ClosePending => ENABLED Next

\* C17: an IsClosed call answers false exactly when, at the moment it looks
\* (under the read lock), the flag is not set and the context is not done,
\* and true otherwise; and once IsClosed has returned true on a client, the
\* flag of that client is set and its context is done.
C17_IsClosedReconciles ==
  [][ \A t \in Users :
        /\ At(t, "IsClosed", "start") /\ stack'[t] # stack[t] =>
             LET c == Top(t).c
                 saysFalse == /\ Len(stack'[t]) < Len(stack[t])
                              /\ ret'[t].op = "IsClosed" /\ ret'[t].val = "false"
             IN saysFalse <=> ~clients[c].closed /\ ~CtxDone(c)
        /\ Running(t) /\ Top(t).op = "IsClosed" /\ Top(t).pc # "start"
             /\ Len(stack'[t]) < Len(stack[t]) => ret'[t].val = "true"
        /\ ret'[t].op = "IsClosed" /\ ret'[t].val = "true" =>
             clients'[ret'[t].c].closed /\ CtxDoneIn(clients', ret'[t].c) ]_vars

\* the only call ever made is an IsClosed, on a client whose context was
\* cancelled from outside: it closed the client and returned true
C17_Witness ==
  /\ ops = 1 /\ extCancel
  /\ \E t \in Users :
       /\ ret[t].op = "IsClosed" /\ ret[t].val = "true" /\ ret[t].c = Root
       /\ clients[Root].closed /\ clients[Root].cancelled

\* New was called with enforce-HTTPS-only in force (in opt, or by the
\* defaults that replace a nil opt) on a URL of scheme http, and gave a client
HTTPSEnforced ==
  /\ npc = "done" /\ nRes.err = ""
  /\ nRes.client.Options.OnlyHTTPS
  /\ nIn.serverURL.scheme = "http"

\* C18: a client New returns for an http URL under enforce-HTTPS-only stores
\* the URL with scheme https, and no Do on it or on its clones builds its
\* initial request with scheme http.
C18_HTTPSOnlyStored ==
  HTTPSEnforced =>
    /\ nRes.client.URL.scheme = "https"
    /\ \A r \in nReq : r.scheme # "http"

\* the conditions New refuses its arguments on
NewRefuses ==
  [ ErrEmptyServerURL |-> nIn.serverURL.kind = "empty",
    ErrInvalidURL |-> nIn.serverURL.kind = "unparsable",
    ErrInvalidQuery |-> nIn.serverURL.query = "invalid",
    ErrInvalidTimeout |-> ~nIn.opt.nil /\ nIn.opt.Timeout < 0,
    ErrInvalidRedirectLimit |-> ~nIn.opt.nil /\ nIn.opt.MaxRedirect < 0 ]

C20_UpdateRefreshesOnce ==
  [][ tUpdates' = tUpdates + 1 =>
        /\ tToken.ExpireAt > tNow => tSent' = tSent /\ tToken' = tToken
        /\ tToken.ExpireAt <= tNow => tSent' = tSent + 1
        /\ tToken.ExpireAt <= tNow /\ tLast'.err = "" =>
             tToken'.ExpireAt = tNow + tToken'.ExpiresIn ]_vars

\* C21: a failing token refresh leaves the cached token (value, type, scope
\* and expiry) unchanged, and a token endpoint answering HTTP 500, whatever
\* its body, makes the refresh return ErrorUnexpectedStatusCode.
C21_FailedRefreshKeepsToken ==
  [][ tUpdates' = tUpdates + 1 /\ ~tLast'.valid =>
        /\ tLast'.err # "" => tToken' = tToken
        /\ tLast'.met.status = 500 => tLast'.err = "ErrorUnexpectedStatusCode" ]_vars

\* C22: for a Basic authenticator built from a non-empty user id and a
\* non-empty secret, every call of Header (whatever the method, URL and body)
\* returns the name "Authorization" and the value "Basic " followed by
\* base64(user ":" secret) with no error, the same on every call, and leaves
\* the authenticator unchanged.
C22_BasicHeader ==
  [][ bCalls' = bCalls + 1 /\ bIn.userID # <<>> /\ bIn.password # <<>> =>
        /\ bHeader'.name = "Authorization"
        /\ bHeader'.value =
             <<66, 97, 115, 105, 99, 32>> \o Base64(bIn.userID \o <<58>> \o bIn.password)
        /\ bHeader'.err = ""
        /\ bCalls > 0 => bHeader' = bHeader
        /\ bRes' = bRes ]_vars

\* a second call of Header has returned for the user "a:" with password ":a"
C22_Witness ==
  /\ bCalls = 2 /\ bIn.userID = <<97, 58>> /\ bIn.password = <<58, 97>>
  /\ bHeader.value = <<66, 97, 115, 105, 99, 32>> \o Base64(<<97, 58, 58, 58, 97>>)

\* C23: NewBasic fails with the missing-user-id error when the user id is
\* empty (whatever the secret), with the missing-password error when the user
\* id is non-empty and the secret empty, and succeeds exactly when both are
\* non-empty, returning an authenticator holding exactly these two values.
C23_NewBasicValidates ==
  bpc = "done" =>
    /\ bIn.userID = <<>> => bRes.err = "ErrNoUserID"
    /\ bIn.userID # <<>> /\ bIn.password = <<>> => bRes.err = "ErrNoPassword"
    /\ bRes.err = "" <=> bIn.userID # <<>> /\ bIn.password # <<>>
    /\ bRes.err = "" => bRes.basic = [UserID |-> bIn.userID, Password |-> bIn.password]

\* NewBasic has refused an empty user id given together with an empty secret
C23_Witness ==
  bpc = "done" /\ bIn.userID = <<>> /\ bIn.password = <<>> /\ bRes.err = "ErrNoUserID"

\* C24: for all parameter values Digest.Response(a1, a2) is
\* hash(a1):nonce:nc:cnonce:qop:hash(a2) when QOP is "auth" or "auth-int" and
\* hash(a1):nonce:hash(a2) for every other QOP value, the empty one included,
\* hash being the function the configured algorithm selects.
C24_DigestResponse ==
  [][ gCalls' = gCalls + 1 /\ gOut'.op = "Response" =>
        LET p == gHeap[gAuth.client].Parameters
            colon == <<Atom(":")>>
            h1 == Hash(p, gOut'.a1)
            h2 == Hash(p, gOut'.a2)
        IN  gOut'.out =
              IF p.QOP \in {<<Atom("auth")>>, <<Atom("auth-int")>>}
              THEN h1 \o colon \o p.Nonce \o colon \o p.NC \o colon \o p.CNonce
                   \o colon \o p.QOP \o colon \o h2
              ELSE h1 \o colon \o p.Nonce \o colon \o h2 ]_vars

\* Response has returned the six-part form for QOP "auth-int" under SHA-256
C24_Witness ==
  /\ gOut.op = "Response" /\ gAuth.client # 0
  /\ gHeap[1].Parameters.QOP = <<Atom("auth-int")>>
  /\ gHeap[1].Parameters.Algorithm = "sha-256"
  /\ Len(gOut.out) = 11
  /\ gOut.out[1] = [h |-> "sha256", s |-> "", of |-> <<Atom("a1")>>]

\* C25: NewDigest returns an error exactly when the user name, the secret, the
\* realm, the nonce or the URI is empty or the algorithm is not one of the
\* eight recognized names; otherwise it returns a Digest whose user name,
\* secret and parameter fields all equal the inputs.
C25_NewDigestValidates ==
  gpc = "built" =>
    /\ gRes.err # "" <=>
         \/ gIn.username = <<>> \/ gIn.password = <<>>
         \/ gIn.parameters.Realm = <<>> \/ gIn.parameters.Nonce = <<>>
         \/ gIn.parameters.URI = <<>>
         \/ gIn.parameters.Algorithm \notin
              { "md5", "sha-256", "sha-512", "sha-512-256",
                "md5-sess", "sha-256-sess", "sha-512-sess", "sha-512-256-sess" }
    /\ gRes.err = "" =>
         /\ gRes.digest.Username = gIn.username
         /\ gRes.digest.Password = gIn.password
         /\ \A f \in DOMAIN gIn.parameters :
              gRes.digest.Parameters[f] = gIn.parameters[f]
         /\ DOMAIN gRes.digest.Parameters = DOMAIN gIn.parameters

\* NewDigest has refused the algorithm name "MD5" given with valid other inputs
C25_Witness ==
  /\ gpc = "built" /\ gRes.err = "ErrUnknownAlgorithm"
  /\ gIn.parameters.Algorithm = "MD5"
  /\ gIn.username # <<>> /\ gIn.password # <<>> /\ gIn.parameters.Realm # <<>>
  /\ gIn.parameters.Nonce # <<>> /\ gIn.parameters.URI # <<>>

\* x occurs in t as a run of consecutive atoms
IsInfix(x, t) ==
  \E i \in 0..(Len(t) - Len(x)) : SubSeq(t, i + 1, i + Len(x)) = x

\* the number of atoms of t equal to a
Count(a, t) == Cardinality({i \in 1..Len(t) : t[i] = a})

\* the value Header gives to one of the ten fields of the Digest d
HeaderFieldValue(field, d, method, body) ==
  CASE field = "uri" -> d.Parameters.URI
    [] field = "algorithm" ->
         IF d.Parameters.Algorithm = "" THEN <<>> ELSE <<Atom(d.Parameters.Algorithm)>>
    [] field = "response" -> Hash(d.Parameters, Response(d, A1(d), A2(d, method, body)))
    [] field = "realm" -> d.Parameters.Realm
    [] field = "nonce" -> d.Parameters.Nonce
    [] field = "nc" -> d.Parameters.NC
    [] field = "cnonce" -> d.Parameters.CNonce
    [] field = "qop" -> d.Parameters.QOP
    [] field = "opaque" -> d.Parameters.Opaque
    [] field = "userhash" ->
         IF d.Parameters.UserHash THEN <<Atom("true")>> ELSE <<Atom("false")>>

\* C27: the Digest header value is "Digest " followed by key=value pairs
\* joined by ", "; a field appears if and only if its value is non-empty; uri,
\* response, realm, nonce, cnonce and opaque are double-quoted; algorithm, nc,
\* qop and userhash are not; with QOP "auth", a non-empty NC and a (non-empty)
\* printable-ASCII user name the header contains qop=auth, nc=<NC>, the quoted
\* uri and a quoted username whose key has no asterisk.
C27_DigestHeaderFormat ==
  [][ gCalls' = gCalls + 1 /\ gOut'.op = "Header" =>
        LET d == gHeap[gAuth.client]
            out == gOut'.out
            eq == Atom("=")
            quote == Atom("\"")
            v(f) == HeaderFieldValue(f, d, gOut'.method, gOut'.body)
        IN  /\ Len(out) >= 1 /\ out[1] = Atom("Digest ")
            /\ Count(Atom(", "), out) = Count(eq, out) - 1
            /\ \A f \in {"uri", "response", "realm", "nonce", "cnonce", "opaque"} :
                 /\ IsInfix(<<Atom(f), eq>>, out) <=> v(f) # <<>>
                 /\ v(f) # <<>> => IsInfix(<<Atom(f), eq, quote>> \o v(f) \o <<quote>>, out)
            /\ \A f \in {"algorithm", "nc", "qop", "userhash"} :
                 /\ IsInfix(<<Atom(f), eq>>, out) <=> v(f) # <<>>
                 /\ v(f) # <<>> => IsInfix(<<Atom(f), eq>> \o v(f), out)
                 /\ ~IsInfix(<<Atom(f), eq, quote>>, out)
            /\ ( /\ d.Parameters.QOP = <<Atom("auth")>> /\ d.Parameters.NC # <<>>
                 /\ d.Username # <<>>
                 /\ \A i \in 1..Len(d.Username) : d.Username[i].s \notin {"xC3", "xA4"} )
               => /\ IsInfix(<<Atom("qop"), eq, Atom("auth")>>, out)
                  /\ IsInfix(<<Atom("nc"), eq>> \o d.Parameters.NC, out)
                  /\ d.Parameters.URI # <<>> =>
                       IsInfix(<<Atom("uri"), eq, quote>> \o d.Parameters.URI \o <<quote>>, out)
                  /\ IsInfix(<<Atom("username"), eq, quote>>, out)
                  /\ ~IsInfix(<<Atom("username"), Atom("*")>>, out) ]_vars

\* Header has returned for SHA-256, QOP "auth", NC 00000001, the URI
\* /dir/index.html and the user name Mufasa, built by NewDigest
C27_Witness ==
  /\ gOut.op = "Header" /\ gpc = "built" /\ gRes.err = ""
  /\ gHeap[1].Parameters.Algorithm = "sha-256"
  /\ gHeap[1].Parameters.QOP = <<Atom("auth")>>
  /\ gHeap[1].Parameters.NC = <<Atom("00000001")>>
  /\ gHeap[1].Username = <<Atom("Mufasa")>>
  /\ ~gHeap[1].Parameters.UserHash
  /\ IsInfix(<<Atom("uri"), Atom("="), Atom("\""), Atom("/dir/index.html"), Atom("\"")>>,
             gOut.out)
  /\ IsInfix(<<Atom("username"), Atom("="), Atom("\""), Atom("Mufasa"), Atom("\"")>>,
             gOut.out)

\* C26: cloning a Digest, directly or through Client.Clone of the client it
\* is attached to, gives an authenticator equal to the source in every field
\* and leaves the source as it was; afterwards an assignment to any field
\* through the clone leaves the source unchanged, and an assignment through
\* the source leaves the clone unchanged.
C26_DigestCloneIndependent ==
  [][ /\ gAuth.clone = 0 /\ gAuth'.clone # 0 =>
           /\ gHeap'[gAuth'.clone] = gHeap[gAuth.client]
           /\ gHeap'[gAuth'.client] = gHeap[gAuth.client]
      /\ gAuth.clone # 0 /\ gCalls' = gCalls + 1 /\ gOut'.op = "Set" =>
           /\ gOut'.on = "clone" => gHeap'[gAuth.client] = gHeap[gAuth.client]
           /\ gOut'.on = "client" => gHeap'[gAuth.clone] = gHeap[gAuth.clone] ]_vars

\* the NC of the clone made by Client.Clone was changed and the source kept its own
C26_Witness ==
  /\ gAuth.clone # 0 /\ gOut.op = "Set" /\ gOut.on = "clone"
  /\ gHeap[gAuth.client].Parameters.NC = <<Atom("00000001")>>
  /\ gHeap[gAuth.clone].Parameters.NC = <<>>
  /\ gHeap[gAuth.client] = gRes.digest
  /\ \A f \in DOMAIN ZeroParameters \ {"NC"} :
       gHeap[gAuth.clone].Parameters[f] = gHeap[gAuth.client].Parameters[f]

\* p without the slashes it begins and ends with
RECURSIVE StripSlashes(_)
StripSlashes(p) ==
  IF p = <<>> THEN <<>>
  ELSE IF p[1] = "/" THEN StripSlashes(Tail(p))
  ELSE IF p[Len(p)] = "/" THEN StripSlashes(SubSeq(p, 1, Len(p) - 1))
  ELSE p

\* C28: NewChild(p) on an open client returns a client whose URL is the
\* parent's except for the path: unchanged for an empty p, otherwise the
\* parent's path (nothing for "/") followed by p normalized to exactly one
\* leading slash and no trailing slash; the parent's URL is unchanged.
\* (Nothing is asked of the path when p consists of slashes only.)
C28_NewChildPath ==
  [][ pDepth' = pDepth + 1 =>
        /\ pParent' = pParent
        /\ [pChild' EXCEPT !.path = <<>>] = [pParent EXCEPT !.path = <<>>]
        /\ pArg' = <<>> => pChild'.path = pParent.path
        /\ StripSlashes(pArg') # <<>> =>
             pChild'.path = (IF pParent.path = <<"/">> THEN <<>> ELSE pParent.path)
                            \o <<"/">> \o StripSlashes(pArg') ]_vars

\* C29: Do on an open client with an empty method, or with a method that is
\* not a recognized HTTP verb, returns a nil response and an error matching
\* ErrInvalidMethod, and sends no request.
C29_InvalidMethodRefused ==
  ( /\ mIn.method \notin {"GET", "HEAD", "POST", "PUT", "DELETE", "CONNECT",
                          "OPTIONS", "TRACE", "PATCH"}
    /\ mpc # "call" )
  => /\ mSent = {}
     /\ mpc = "done" /\ mRes.resp = "nil" /\ mRes.err = "ErrInvalidMethod"

\* the DoWithMarshal calls on client c whose request is under way: the Do
\* they run is between its increment and its deferred decrement
MarshalInFlight(c) ==
  UNION { { <<t, i>> : i \in { j \in 2..Len(stack[t]) :
                             /\ stack[t][j].op = "DoWithMarshal"
                             /\ stack[t][j].c = c
                             /\ stack[t][j].pc = "done"
                             /\ \E k \in 1..(j - 1) :
                                  /\ stack[t][k].op = "Do"
                                  /\ stack[t][k].c = stack[t][j].x
                                  /\ stack[t][k].pc \in DoCounted } } : t \in Threads }

\* C30: while a DoWithMarshal call on a client M has its request under way,
\* M's active-request counter is above zero, as it is for a Do call on M, so
\* that M.Close waits for the call.
C30_MarshalCountedOnMain ==
  \A c \in Clients :
    crashed = "" /\ MarshalInFlight(c) # {} => clients[c].activeRequests > 0

\* C31: with a rate limiter configured, Wait has returned once for every
\* request that goes out, the initial one and every followed hop, before it
\* goes out; no Wait is made for a hop rejected by the redirect limit; and a
\* Wait that returns an error ends the call with that error, the pending
\* request or hop not sent.
C31_WaitBeforeEverySend ==
  rOpt.RateLimiter =>
    /\ rpc = "send" => rWaits = Len(rVia) + 1
    /\ rpc = "check" => rWaits = Len(rVia)
    /\ rResult \in {"ErrTooManyRedirects", "response"} => rWaits = Len(rVia)
    /\ rResult = "ErrLimiter" => rpc = "done" /\ rWaits = Len(rVia) + 1

\* a hop followed under a rate limiter, its request about to go out after
\* the second Wait
C31_Witness ==
  /\ rOpt.RateLimiter /\ rpc = "send"
  /\ Len(rVia) = 1 /\ rWaits = 2

\* the private clone of the call at the top of t's stack: 0 when it has none
PrivateClone(t) ==
  IF Top(t).op = "DoWithMarshal" /\ Top(t).pc = "cloned" THEN ret[t].cl
  ELSE Top(t).x

\* the call at the top of t's stack returns in this step
Returns(t) ==
  /\ stack[t] # <<>> /\ stack'[t] = Tail(stack[t])
  /\ crashed' = ""

\* C32: when a Do or a DoWithMarshal call returns, on any path, the private
\* clone it created is closed: its closed flag is set and its context is
\* cancelled.
C32_PrivateCloneClosed ==
  [][ \A t \in Threads :
        Returns(t) /\ Top(t).op \in {"Do", "DoWithMarshal"} /\ PrivateClone(t) # 0
          => /\ clients'[PrivateClone(t)].closed
             /\ clients'[PrivateClone(t)].cancelled ]_vars

\* the URL of a request of the chain
RequestURL(req) == <<req.scheme, req.host>>

\* C33: every entry appended to the redirect trace records the URL of the
\* hop and the URL of the request it was redirected from, the first hop
\* included: the from-URL is that of the request sent last, never empty.
C33_TraceEntryFrom ==
  [][ Len(rTrace') = Len(rTrace) + 1 =>
        LET e == rTrace'[Len(rTrace')] IN
          /\ e.url = RequestURL(rReq)
          /\ rVia # <<>> /\ e.from = RequestURL(rVia[Len(rVia)]) ]_vars

\* C34: with Follow off, every call of the redirect policy leaves the trace,
\* the headers and the scheme of the request and the count of Wait calls as
\* they are and ends the call with the redirect answer itself and no error;
\* the trace of such a call is empty throughout.
C34_FollowDisabled ==
  [][ ~rOpt.Follow =>
        /\ rTrace = <<>> /\ rTrace' = <<>>
        /\ rpc = "check" =>
              /\ rReq' = rReq /\ rWaits' = rWaits
              /\ rpc' = "done" /\ rResult' = "last response" ]_vars

\* the policy has answered a redirect with Follow off, the request carrying
\* an Authorization and a Referer header to another host over http
C34_Witness ==
  /\ ~rOpt.Follow /\ rpc = "done" /\ rResult = "last response"
  /\ Len(rVia) = 1 /\ rReq.host = "other" /\ rReq.scheme = "http"
  /\ rReq.auth /\ rReq.referer /\ rOpt.OnlyHTTPS /\ rOpt.RateLimiter
  /\ rWaits = 1

\* C35: a hop the policy lets go has scheme https if OnlyHTTPS is set and
\* its target scheme was http, and its target scheme otherwise.
C35_HTTPSOnRedirect ==
  [][ rpc = "check" /\ rpc' = "send" =>
        rReq'.scheme = IF rOpt.OnlyHTTPS /\ rReq.scheme = "http"
                       THEN "https" ELSE rReq.scheme ]_vars

\* with OnlyHTTPS set a hop to an http URL has been let go, as https
C35_Witness ==
  /\ rpc = "send" /\ Len(rVia) = 1 /\ rOpt.OnlyHTTPS
  /\ rReq.scheme = "https"
  /\ rTrace # <<>> /\ rTrace[1].url[1] = "http"

FormValue(key) ==
  IF \E i \in 1..Len(qReq.body) : qReq.body[i].key = key
  THEN <<(CHOOSE e \in {qReq.body[i] : i \in 1..Len(qReq.body)} : e.key = key).value>>
  ELSE <<>>

\* C37: the token request that goes out is a POST whose form holds
\* grant_type=client_credentials, scope (the scopes joined by single spaces)
\* exactly when a scope is configured, and client_id and client_secret exactly
\* in ClientInBody mode; in both modes it carries the Basic Authorization
\* header of client id and secret and the form Content-Type.
C37_TokenRequest ==
  qpc = "sent" /\ qIn.mode # "" =>
    /\ qReq.method = "POST"
    /\ FormValue("grant_type") = <<GrantType>>
    /\ FormValue("scope") =
         IF qIn.scopes = <<>> THEN <<>>
         ELSE IF Len(qIn.scopes) = 1 THEN <<qIn.scopes[1]>>
         ELSE <<qIn.scopes[1] \o <<32>> \o qIn.scopes[2]>>
    /\ FormValue("client_id") =
         IF qIn.mode = "ClientInBody" THEN <<qIn.id>> ELSE <<>>
    /\ FormValue("client_secret") =
         IF qIn.mode = "ClientInBody" THEN <<qIn.secret>> ELSE <<>>
    /\ qReq.header.Authorization =
         BasicValuePrefix \o Base64(qIn.id \o <<58>> \o qIn.secret)
    /\ qReq.header.ContentType = "application/x-www-form-urlencoded"

\* C38: whatever Close calls run meanwhile on the client or on its parent, a
\* Do never panics on a nil clone or on configuration a Close has released:
\* it ends with a response or a returned error.
C38_DoNeverPanics == crashed \notin {"Do: nil clone", "Do: nil logger"}

\* an operation has been started and has not returned
TreePending == \E t \in TreeThreads : kStack[t] # <<>>

\* C39: no interleaving of Close, Clone, NewChild, Do, IsClosed, FlushHeader
\* and FlushQuery on the clients of one tree deadlocks: as long as the
\* program has not panicked and an operation is under way, one of the
\* operations under way can take a step.
C39_NoDeadlock == kCrashed = "" /\ TreePending => ENABLED TreeSteps

\* the calls of one method made on authenticators so far
AuthCallsOf(fn) == {i \in DOMAIN aCalls : aCalls[i].fn = fn}

\* C40: Do asks the authenticator of its per-call clone for the header
\* exactly once per request and never calls Update; when Header fails Do
\* returns that error and sends nothing; the authenticator attached to the
\* original client stays as it was, so a ClientCredentials token that is
\* expired or was never fetched goes out as it is.
C40_HeaderOnceOnClone ==
  /\ AuthCallsOf("Update") = {}
  /\ \A i \in AuthCallsOf("Header") : aCalls[i].on = CloneAuth
  /\ aHeap[MainAuth] = aIn.auth
  /\ aIn.auth.kind # "nil" /\ apc \in {"send", "done"} =>
       Cardinality(AuthCallsOf("Header")) = 1
  /\ aIn.auth.kind = "nil" => AuthCallsOf("Header") = {}
  /\ aRes = "ErrAuth" => apc = "done" /\ aSent = <<>>
  /\ Len(aSent) <= 1
  /\ aIn.auth.kind = "ClientCredentials" /\ aSent # <<>> =>
       aSent[1] = <<"Bearer ", aIn.auth.token>>

\* an expired token was sent, and so was one never fetched
C40_Witness ==
  /\ apc = "done"
  /\ aIn.auth.kind = "ClientCredentials"
  /\ aIn.auth.token = "A"
  /\ aIn.auth.expireAt < aIn.now
  /\ aSent = << <<"Bearer ", "A">> >>

====
